---- MODULE Spec2Model ----
(***************************************************************************)
(* Model of the skin craft plugin (skin.py): getCraftedTextFromText and    *)
(* the SkinSkein scanner, which rewrites captured perimeters and infill    *)
(* into fractional-height passes.                                           *)
(*                                                                          *)
(* A gcode line is a record [tag, val]: tag is the first word of the line   *)
(* (the whole line for words without arguments) and val its numeric         *)
(* arguments.  A number of a line is the decimal numeral written there,     *)
(* kept as the fraction <<numerator, denominator>> in lowest terms and      *)
(* flattened into val.  The numbers the scanner holds are Python floats     *)
(* (IEEE 754 doubles): float() turns a numeral into the nearest double,     *)
(* the arithmetic rounds every result to the nearest double, and round()    *)
(* and str() turn a double back into a numeral.  A text is the sequence of  *)
(* lines that splitting it at newlines gives, so a text that ends in a      *)
(* newline ends in a blank line, and the empty text is the single blank     *)
(* line.                                                                    *)
(***************************************************************************)
EXTENDS Integers, Sequences, FiniteSets, TLC

(***************************************************************************)
(* Bounds of the model.                                                     *)
(***************************************************************************)
MaxFree == 2
MaxDivisions == 2
MaxLayersFrom == 1
MaxLayers == 4
MaxPrescan == 4

(***************************************************************************)
(* The Python that runs the plugin: "2.6" or "2.7".  The builtin round of   *)
(* the two differs, and with it the numerals of the flow rates written.     *)
(***************************************************************************)
VARIABLE runtime

(***************************************************************************)
(* The math library under the Python.  Its log10 is not exact: of the two   *)
(* doubles a logarithm lies between it gives the one "below" or the one     *)
(* "above", as the library is built.                                        *)
(***************************************************************************)
VARIABLE libm

(***************************************************************************)
(* Optional values: None is the empty tuple, Some(v) the one-tuple.         *)
(***************************************************************************)
None == <<>>
Some(v) == <<v>>
IsNone(o) == Len(o) = 0
Get(o) == o[1]

(***************************************************************************)
(* The(S) is the member of a set S of one value.  An operator computes an   *)
(* argument wherever it uses it; in The({f(x) : x \in {e}}) the value of e  *)
(* is computed once and f is applied to it.                                 *)
(***************************************************************************)
The(S) == CHOOSE x \in S : TRUE

(***************************************************************************)
(* Decimal numerals, as fractions in lowest terms.                          *)
(***************************************************************************)
Abs(n) == IF n < 0 THEN -n ELSE n
Max(a, b) == IF a > b THEN a ELSE b
Min(a, b) == IF a < b THEN a ELSE b
Sign(n) == IF n < 0 THEN -1 ELSE IF n > 0 THEN 1 ELSE 0

RECURSIVE Gcd(_, _)
Gcd(a, b) == The({IF y = 0 THEN x ELSE Gcd(y, x % y) : x \in {a}, y \in {b}})

Norm(n, d) == The({<<n \div g, d \div g>> : g \in {Gcd(Abs(n), d)}})
RLess(a, b) == a[1] * b[2] < b[1] * a[2]

(***************************************************************************)
(* Python floats and the integers under them.                               *)
(*                                                                          *)
(* A natural number of any size, as the 53-bit significand of a double      *)
(* needs, is a sequence of limbs below Base, least significant first, with  *)
(* no zero limb at the end; the empty sequence is zero.                     *)
(*                                                                          *)
(* A double is [s, m, e], the value s * m * 2^e with sign s and an odd      *)
(* significand m of at most 53 bits; zero is [0, <<>>, 0].  Every           *)
(* operation gives the double nearest to the exact result, a tie going to   *)
(* the even significand.  The values of the plugin are far from the         *)
(* largest and the smallest double, so overflow, subnormal numbers and the  *)
(* sign of zero are left out.                                               *)
(*                                                                          *)
(* The operations are the cases of one recursive operator, Calc, which      *)
(* applies the operation named to a tuple of operands; each operation is    *)
(* used under its own name, defined first.                                  *)
(***************************************************************************)
Base == 32768
LimbBits == 15
SignificandBits == 53

RECURSIVE Calc(_, _)

\* the limbs of an integer n >= 0, and the integer of limbs
NatLimbs(n) == Calc("NatLimbs", <<n>>)
LimbsNat(a) == Calc("LimbsNat", <<a>>)
\* a without zero limbs at the end
Trim(a) == Calc("Trim", <<a>>)
\* a + b, a - b for a >= b, and -1, 0 or 1 as a is below, equal to or above b
NatAdd(a, b) == Calc("NatAdd", <<a, b>>)
NatSub(a, b) == Calc("NatSub", <<a, b>>)
NatCmp(a, b) == Calc("NatCmp", <<a, b>>)
\* a * k for an integer 0 <= k <= Base, a * b, 10^p and a * 2^n
NatTimes(a, k) == Calc("NatTimes", <<a, k>>)
NatMul(a, b) == Calc("NatMul", <<a, b>>)
NatPow10(p) == Calc("NatPow10", <<p>>)
NatShl(a, n) == Calc("NatShl", <<a, n>>)
\* quotient q and remainder r of a by d > 0, and floor(a / 2^n)
NatDivMod(a, d) == Calc("NatDivMod", <<a, d>>)
NatShr(a, n) == Calc("NatShr", <<a, n>>)
\* the number of bits of a, and the number of zero bits a > 0 ends in
NatBits(a) == Calc("NatBits", <<a>>)
NatTwos(a) == Calc("NatTwos", <<a>>)

Zero == [s |-> 0, m |-> <<>>, e |-> 0]
\* the double s * m * 2^e, for m of at most 53 bits
Double(s, m, e) == Calc("Double", <<s, m, e>>)
\* the double nearest to s * (q + f) * 2^e, for q of more than 53 bits and
\* a fraction 0 <= f < 1 that is above 0 when sticky
Rounded(s, q, sticky, e) == Calc("Rounded", <<s, q, sticky, e>>)
\* the double nearest to s * (n / d) * 2^e: for n > 0 and odd d, and for any
NearestOdd(s, n, d, e) == Calc("NearestOdd", <<s, n, d, e>>)
Nearest(s, n, d, e) == Calc("Nearest", <<s, n, d, e>>)

\* float(k) of an integer k
floatOfInt(k) == Calc("floatOfInt", <<k>>)
\* float(word) of a decimal numeral
float(q) == Calc("float", <<q>>)

FNeg(x) == [x EXCEPT !.s = -@]
FAbs(x) == [x EXCEPT !.s = Abs(@)]
\* the sign of x - y, for any two values s * m * 2^e
FCmp(x, y) == Calc("FCmp", <<x, y>>)
FLess(x, y) == FCmp(x, y) < 0
\* x + y, x - y, x * y, and x / y for y that is not zero
FAdd(x, y) == Calc("FAdd", <<x, y>>)
FSub(x, y) == Calc("FAdd", <<x, FNeg(y)>>)
FMul(x, y) == Calc("FMul", <<x, y>>)
FDiv(x, y) == Calc("FDiv", <<x, y>>)
FHalf == [s |-> 1, m |-> <<1>>, e |-> -1]
FOne == [s |-> 1, m |-> <<1>>, e |-> 0]
\* math.floor of a double that is not negative
NatFloor(x) == Calc("NatFloor", <<x>>)

\* round(number, ndigits) of Python 2.7: the multiple of 10^-ndigits
\* closest to the exact value of the double, a tie going away from zero
Round27(number, ndigits) == Calc("Round27", <<number, ndigits>>)
\* round(number, ndigits) of Python 2.6 and before: the double is
\* multiplied by 10^ndigits, 0.5 is added, the floor is taken and divided
\* by 10^ndigits, every step in floating point
Round26(number, ndigits) == Calc("Round26", <<number, ndigits>>)
\* str(round(number, ndigits)) under the running Python
round(number, ndigits) ==
  Calc(IF runtime = "2.6" THEN "Round26" ELSE "Round27", <<number, ndigits>>)
\* euclidean.getRoundedToPlacesString: at least one place
getRoundedToPlacesString(decimalPlaces, number) ==
  round(number, Max(1, decimalPlaces))
\* math.floor(math.log10(x)) for a double x > 0, under the running library
FloorLog10(x) == Calc("FloorLog10", <<x, libm>>)
\* euclidean.getFourSignificantFigures: two places from 100.0 up, thirteen
\* below 0.000000001, else 3 - floor(log10(abs(number))) places
getFourSignificantFigures(number) ==
  Calc("getFourSignificantFigures", <<number, runtime, libm>>)

LimbAt(a, i) == IF i <= Len(a) THEN a[i] ELSE 0
ShiftLimbs(a, n) == IF Len(a) = 0 THEN a ELSE [i \in 1..n |-> 0] \o a

RECURSIVE Pow2(_)
Pow2(n) == IF n = 0 THEN 1 ELSE 2 * Pow2(n - 1)
RECURSIVE IntBits(_)
IntBits(n) == IF n = 0 THEN 0 ELSE 1 + IntBits(n \div 2)
RECURSIVE IntTwos(_)
IntTwos(n) == IF n % 2 = 1 THEN 0 ELSE 1 + IntTwos(n \div 2)

RECURSIVE AddFrom(_, _, _, _)
AddFrom(a, b, i, carry) ==
  IF i > Len(a) /\ i > Len(b) THEN (IF carry = 0 THEN <<>> ELSE <<carry>>)
  ELSE The({<<t % Base>> \o AddFrom(a, b, i + 1, t \div Base) :
              t \in {LimbAt(a, i) + LimbAt(b, i) + carry}})

RECURSIVE SubFrom(_, _, _, _)
SubFrom(a, b, i, borrow) ==
  IF i > Len(a) THEN <<>>
  ELSE The({<<IF t < 0 THEN t + Base ELSE t>>
              \o SubFrom(a, b, i + 1, IF t < 0 THEN 1 ELSE 0) :
              t \in {a[i] - LimbAt(b, i) - borrow}})

RECURSIVE CmpFrom(_, _, _)
CmpFrom(a, b, i) ==
  IF i = 0 THEN 0
  ELSE IF a[i] < b[i] THEN -1
  ELSE IF a[i] > b[i] THEN 1
  ELSE CmpFrom(a, b, i - 1)

RECURSIVE TimesFrom(_, _, _, _)
TimesFrom(a, k, i, carry) ==
  IF i > Len(a) THEN (IF carry = 0 THEN <<>> ELSE <<carry>>)
  ELSE The({<<t % Base>> \o TimesFrom(a, k, i + 1, t \div Base) :
              t \in {a[i] * k + carry}})

RECURSIVE MulFrom(_, _, _)
MulFrom(a, b, i) ==
  IF i > Len(b) THEN <<>>
  ELSE NatAdd(ShiftLimbs(NatTimes(a, b[i]), i - 1), MulFrom(a, b, i + 1))

\* quotient and remainder of a by an integer divisor 1 <= d < 2 * Base
RECURSIVE DivFrom(_, _, _, _, _)
DivFrom(a, d, i, r, q) ==
  IF i = 0 THEN [q |-> Trim(q), r |-> NatLimbs(r)]
  ELSE The({DivFrom(a, d, i - 1, t % d, <<t \div d>> \o q) : t \in {r * Base + a[i]}})

\* the largest digit t with t * d <= r, found bit by bit
RECURSIVE DigitFrom(_, _, _, _)
DigitFrom(r, d, t, b) ==
  IF b < 0 THEN t
  ELSE The({IF NatCmp(NatTimes(d, u), r) <= 0
            THEN DigitFrom(r, d, u, b - 1)
            ELSE DigitFrom(r, d, t, b - 1) : u \in {t + Pow2(b)}})

\* quotient and remainder of a by any divisor d > 0, limb by limb
RECURSIVE LongDivFrom(_, _, _, _, _)
LongDivFrom(a, d, i, q, r) ==
  IF i = 0 THEN [q |-> Trim(q), r |-> r]
  ELSE The({The({The({LongDivFrom(a, d, i - 1, <<t>> \o q, r3) :
                        r3 \in {NatSub(r2, NatTimes(d, t))}}) :
                   t \in {DigitFrom(r2, d, 0, LimbBits - 1)}}) :
              r2 \in {IF Len(r) = 0 THEN Trim(<<a[i]>>) ELSE <<a[i]>> \o r}})

\* the numeral s * k / 10^p, as str() writes the float nearest to it
RECURSIVE Decimal(_, _, _)
Decimal(s, k, p) ==
  The({IF n = 0 THEN <<0, 1>>
       ELSE IF p > 0 /\ n % 10 = 0 THEN Decimal(s, n \div 10, p - 1)
       ELSE Norm(s * n, LimbsNat(NatPow10(p))) : n \in {k}})

\* The doubles under an integer k are 2^-GapBits(k) apart; under 0 they
\* are dense.
GapBits(k) ==
  IF k > 0 /\ k = Pow2(IntBits(k) - 1) THEN 54 - IntBits(k)
  ELSE 53 - IntBits(Abs(k))

\* math.log10(x) >= k for a double x > 0 and an integer k, under the library
\* lib.  At and above 10^k it is.  Under 10^k the logarithm is a double only
\* for k = 0; the double above it is k when k - log10(x) < 2^-GapBits(k),
\* which is (10^k - x) / x < 2^-GapBits(k) * ln(10); the limbs are those of
\* ln(10) * 2^60 = 2654699869899991813.
Log10AtLeast(x, k, lib) ==
  The({IF NatCmp(nq, pd) >= 0 THEN TRUE
       ELSE /\ lib = "above"
            /\ k # 0
            /\ NatCmp(NatShl(NatSub(pd, nq), GapBits(k) + 60),
                      NatMul(nq, <<11013, 21844, 3549, 9915, 2>>)) < 0 :
         nq \in {NatMul(NatShl(x.m, Max(x.e, 0)), NatPow10(Max(-k, 0)))},
         pd \in {NatShl(NatPow10(Max(k, 0)), Max(-x.e, 0))}})

\* math.floor(math.log10(x)): the j with j <= math.log10(x) < j + 1, looked
\* for upwards and downwards from the one given
RECURSIVE Log10Floor(_, _, _)
Log10Floor(x, j, lib) ==
  IF Log10AtLeast(x, j + 1, lib) THEN Log10Floor(x, j + 1, lib)
  ELSE IF Log10AtLeast(x, j, lib) THEN j
  ELSE Log10Floor(x, j - 1, lib)

Calc(op, operands) ==
  The({
    CASE op = "NatLimbs" ->
           IF x[1] = 0 THEN <<>> ELSE <<x[1] % Base>> \o NatLimbs(x[1] \div Base)
      [] op = "LimbsNat" ->
           IF Len(x[1]) = 0 THEN 0 ELSE x[1][1] + Base * LimbsNat(Tail(x[1]))
      [] op = "Trim" ->
           IF Len(x[1]) > 0 /\ x[1][Len(x[1])] = 0
           THEN Trim(SubSeq(x[1], 1, Len(x[1]) - 1))
           ELSE x[1]
      [] op = "NatAdd" -> AddFrom(x[1], x[2], 1, 0)
      [] op = "NatSub" -> Trim(SubFrom(x[1], x[2], 1, 0))
      [] op = "NatCmp" ->
           IF Len(x[1]) < Len(x[2]) THEN -1
           ELSE IF Len(x[1]) > Len(x[2]) THEN 1
           ELSE CmpFrom(x[1], x[2], Len(x[1]))
      [] op = "NatTimes" -> IF x[2] = 0 THEN <<>> ELSE TimesFrom(x[1], x[2], 1, 0)
      [] op = "NatMul" -> MulFrom(x[1], x[2], 1)
      [] op = "NatPow10" ->
           IF x[1] = 0 THEN <<1>>
           ELSE IF x[1] % 2 = 1 THEN NatTimes(NatPow10(x[1] - 1), 10)
           ELSE The({NatMul(h, h) : h \in {NatPow10(x[1] \div 2)}})
      [] op = "NatShl" ->
           ShiftLimbs(NatTimes(x[1], Pow2(x[2] % LimbBits)), x[2] \div LimbBits)
      [] op = "NatDivMod" ->
           IF Len(x[2]) = 1 \/ (Len(x[2]) = 2 /\ x[2][2] = 1)
           THEN DivFrom(x[1], LimbsNat(x[2]), Len(x[1]), 0, <<>>)
           ELSE LongDivFrom(x[1], x[2], Len(x[1]), <<>>, <<>>)
      [] op = "NatShr" ->
           IF x[2] \div LimbBits >= Len(x[1]) THEN <<>>
           ELSE DivFrom(SubSeq(x[1], x[2] \div LimbBits + 1, Len(x[1])),
                        Pow2(x[2] % LimbBits), Len(x[1]) - x[2] \div LimbBits,
                        0, <<>>).q
      [] op = "NatBits" ->
           IF Len(x[1]) = 0 THEN 0
           ELSE LimbBits * (Len(x[1]) - 1) + IntBits(x[1][Len(x[1])])
      [] op = "NatTwos" ->
           IF x[1][1] = 0 THEN LimbBits + NatTwos(Tail(x[1])) ELSE IntTwos(x[1][1])
      [] op = "Double" ->
           IF Len(x[2]) = 0 THEN Zero
           ELSE The({[s |-> x[1], m |-> NatShr(x[2], t), e |-> x[3] + t] :
                       t \in {NatTwos(x[2])}})
      [] op = "Rounded" ->
           The({The({The({Double(x[1],
                                 IF c > 0 \/ (c = 0 /\ (x[3] \/ kept[1] % 2 = 1))
                                 THEN NatAdd(kept, <<1>>)
                                 ELSE kept,
                                 x[4] + drop) :
                            c \in {NatCmp(NatSub(x[2], NatShl(kept, drop)),
                                          NatShl(<<1>>, drop - 1))}}) :
                       kept \in {NatShr(x[2], drop)}}) :
                  drop \in {NatBits(x[2]) - SignificandBits}})
      [] op = "NearestOdd" ->
           IF x[3] = <<1>>
           THEN (IF NatBits(x[2]) <= SignificandBits THEN Double(x[1], x[2], x[4])
                 ELSE Rounded(x[1], x[2], FALSE, x[4]))
           ELSE The({The({Rounded(x[1], dm.q, Len(dm.r) > 0, x[4] - k) :
                            dm \in {NatDivMod(NatShl(x[2], k), x[3])}}) :
                       k \in {Max(0, SignificandBits + 2 + NatBits(x[3])
                                       - NatBits(x[2]))}})
      [] op = "Nearest" ->
           IF Len(x[2]) = 0 THEN Zero
           ELSE The({NearestOdd(x[1], x[2], NatShr(x[3], t), x[4] - t) :
                       t \in {NatTwos(x[3])}})
      [] op = "floatOfInt" -> Double(Sign(x[1]), NatLimbs(Abs(x[1])), 0)
      [] op = "float" ->
           Nearest(Sign(x[1][1]), NatLimbs(Abs(x[1][1])), NatLimbs(x[1][2]), 0)
      [] op = "FCmp" ->
           IF x[1].s # x[2].s THEN (IF x[1].s < x[2].s THEN -1 ELSE 1)
           ELSE IF x[1].s = 0 THEN 0
           ELSE x[1].s * NatCmp(NatShl(x[1].m, x[1].e - Min(x[1].e, x[2].e)),
                                NatShl(x[2].m, x[2].e - Min(x[1].e, x[2].e)))
      [] op = "FAdd" ->
           IF x[1].s = 0 THEN x[2]
           ELSE IF x[2].s = 0 THEN x[1]
           ELSE The({IF x[1].s = x[2].s
                     THEN Nearest(x[1].s, NatAdd(mx, my), <<1>>, Min(x[1].e, x[2].e))
                     ELSE IF NatCmp(mx, my) = 0 THEN Zero
                     ELSE IF NatCmp(mx, my) > 0
                     THEN Nearest(x[1].s, NatSub(mx, my), <<1>>, Min(x[1].e, x[2].e))
                     ELSE Nearest(x[2].s, NatSub(my, mx), <<1>>, Min(x[1].e, x[2].e)) :
                       mx \in {NatShl(x[1].m, x[1].e - Min(x[1].e, x[2].e))},
                       my \in {NatShl(x[2].m, x[2].e - Min(x[1].e, x[2].e))}})
      [] op = "FMul" ->
           IF x[1].s = 0 \/ x[2].s = 0 THEN Zero
           ELSE Nearest(x[1].s * x[2].s, NatMul(x[1].m, x[2].m), <<1>>,
                        x[1].e + x[2].e)
      [] op = "FDiv" ->
           IF x[1].s = 0 THEN Zero
           ELSE Nearest(x[1].s * x[2].s, x[1].m, x[2].m, x[1].e - x[2].e)
      [] op = "NatFloor" ->
           IF x[1].e >= 0 THEN NatShl(x[1].m, x[1].e) ELSE NatShr(x[1].m, -x[1].e)
      [] op = "Round27" ->
           The({Decimal(x[1].s,
                        LimbsNat(IF x[1].e >= 0 THEN NatShl(n, x[1].e)
                                 ELSE NatShr(NatAdd(n, NatShl(<<1>>, -x[1].e - 1)),
                                             -x[1].e)),
                        x[2]) :
                  n \in {NatMul(x[1].m, NatPow10(x[2]))}})
      [] op = "Round26" ->
           Decimal(x[1].s,
                   LimbsNat(NatFloor(FAdd(FMul(FAbs(x[1]),
                                               Double(1, NatPow10(x[2]), 0)),
                                          FHalf))),
                   x[2])
      [] op = "FloorLog10" ->
           Log10Floor(x[1], 0, x[2])
      [] op = "getFourSignificantFigures" ->
           The({Calc(IF x[2] = "2.6" THEN "Round26" ELSE "Round27", <<x[1], places>>) :
                  places \in {IF ~FLess(FAbs(x[1]), floatOfInt(100)) THEN 2
                              ELSE IF FLess(FAbs(x[1]), float(<<1, 1000000000>>))
                              THEN 13
                              ELSE 3 - Calc("FloorLog10", <<FAbs(x[1]), x[3]>>)}})
    : x \in {operands}})

(***************************************************************************)
(* Lines and texts.                                                         *)
(***************************************************************************)
Line(tag, val) == [tag |-> tag, val |-> val]
Blank == Line("", <<>>)
Comment == Line(";", <<>>)
EmptyText == <<Blank>>

EndInitTag == "(</extruderInitialization>)"
SkinDoneTag == "(<procedureName> skin </procedureName>)"

\* archive.getTextLines: the lines of a text; the empty text has none
getTextLines(text) == IF text = EmptyText THEN <<>> ELSE text

\* the text an output buffer holds: every written line ends in a newline
getvalue(out) == out \o <<Blank>>

\* gcodec.getSplitLineBeforeBracketSemicolon has no word for a blank line
\* or a line that starts with a semicolon
HasNoWord(line) == line.tag \in {"", ";"}

\* gcodec.getFirstWord
getFirstWord(line) == IF HasNoWord(line) THEN "" ELSE line.tag

\* DistanceFeedRate.addLine: a line of length zero is not written
addLine(out, line) == IF line = Blank THEN out ELSE Append(out, line)

\* gcodec.isProcedureDoneOrFileIsEmpty(gcodeText, 'skin')
isProcedureDoneOrFileIsEmpty(text) ==
  \/ text = EmptyText
  \/ \E i \in 1..Len(text) : text[i].tag = SkinDoneTag

\* a generated or scanned movement: point, z (denominator 0: no Z word),
\* feed rate (denominator 0: no F word)
G1Line(x, z, f) == Line("G1", <<x, z[1], z[2], f[1], f[2]>>)
NoWord == <<0, 0>>
G1Point(line) == line.val[1]
G1Z(line) == <<line.val[2], line.val[3]>>
G1F(line) == <<line.val[4], line.val[5]>>
ArgOf(line) == <<line.val[1], line.val[2]>>
\* int(word) of a numeral without a fraction
IntOf(line) == line.val[1]

(***************************************************************************)
(* The SkinSkein object.  An attribute the constructor does not set is      *)
(* None until it is assigned; reading it while None raises.                 *)
(***************************************************************************)
NewSkinSkein ==
  [ clipOverPerimeterWidth |-> Zero,
    decimalPlacesCarried |-> 3,
    output |-> <<>>,
    feedRateMinute |-> floatOfInt(959),
    infillBoundaries |-> None,
    infillBoundary |-> None,
    layerIndex |-> -1,
    lineIndex |-> 0,
    lines |-> <<>>,
    maximumZFeedRateMinute |-> floatOfInt(60),
    oldFlowRate |-> None,
    oldLocation |-> None,
    perimeter |-> None,
    travelFeedRateMinute |-> floatOfInt(957),
    layersFromBottom |-> 0,
    horizontalInfillDivisionsFloat |-> 0,
    horizontalPerimeterDivisionsFloat |-> 0,
    verticalDivisions |-> 0,
    infillPerimeterOverlap |-> None,
    infillWidth |-> None,
    skinInfillWidth |-> None,
    layerThickness |-> None,
    perimeterWidth |-> None,
    halfPerimeterWidth |-> None,
    clipLength |-> None,
    skinInfillInset |-> None,
    rotation |-> None,
    boundaryLayers |-> <<>>,
    layerIndexTop |-> -1,
    repository |-> None ]

Ok(s) == [raised |-> FALSE, skein |-> s]
Raise(s) == [raised |-> TRUE, skein |-> s]

\* SkinSkein.getCraftedGcode, the assignments before parseInitialization
BeginCraftedGcode(text, repo) ==
  [NewSkinSkein EXCEPT
     !.lines = getTextLines(text),
     !.repository = repo,
     !.layersFromBottom = repo.layersFrom,
     !.horizontalInfillDivisionsFloat = repo.horizontalInfillDivisions,
     !.horizontalPerimeterDivisionsFloat = repo.horizontalPerimeterDivisions,
     !.verticalDivisions = Max(repo.verticalDivisions, 1)]

(***************************************************************************)
(* SkinSkein.parseInitialization                                            *)
(***************************************************************************)
\* DistanceFeedRate.parseSplitLine: the places its movements are written to
parseSplitLine(s, line) ==
  IF getFirstWord(line) = "(<decimalPlacesCarried>"
  THEN [s EXCEPT !.decimalPlacesCarried = IntOf(line)]
  ELSE s

\* the assignment one recognized header line makes
InitializationLine(s, line) ==
  LET firstWord == getFirstWord(line)
  IN CASE firstWord = "(<clipOverPerimeterWidth>" ->
            Ok([s EXCEPT !.clipOverPerimeterWidth = float(ArgOf(line))])
       [] firstWord = "(<infillPerimeterOverlap>" ->
            Ok([s EXCEPT !.infillPerimeterOverlap = Some(float(ArgOf(line)))])
       [] firstWord = "(<infillWidth>" ->
            The({IF s.horizontalInfillDivisionsFloat = 0
                 THEN Raise([s EXCEPT !.infillWidth = Some(v)])
                 ELSE Ok([s EXCEPT !.infillWidth = Some(v),
                                   !.skinInfillWidth =
                                      Some(FDiv(v, floatOfInt(
                                                     s.horizontalInfillDivisionsFloat)))]) :
                   v \in {float(ArgOf(line))}})
       [] firstWord = "(<layerThickness>" ->
            Ok([s EXCEPT !.layerThickness = Some(float(ArgOf(line)))])
       [] firstWord = "(<maximumZFeedRatePerSecond>" ->
            Ok([s EXCEPT !.maximumZFeedRateMinute =
                            FMul(floatOfInt(60), float(ArgOf(line)))])
       [] firstWord = "(<operatingFlowRate>" ->
            Ok([s EXCEPT !.oldFlowRate = Some(float(ArgOf(line)))])
       [] firstWord = "(<perimeterWidth>" ->
            The({Ok([s EXCEPT !.perimeterWidth = Some(v),
                              !.halfPerimeterWidth = Some(FMul(FHalf, v))]) :
                   v \in {float(ArgOf(line))}})
       [] firstWord = "(<travelFeedRatePerSecond>" ->
            Ok([s EXCEPT !.travelFeedRateMinute =
                            FMul(floatOfInt(60), float(ArgOf(line)))])
       [] OTHER -> Ok(s)

\* a header scan that stops at the end of the initialization without
\* writing the procedure tag
RECURSIVE parseInitializationUntagged(_, _)
parseInitializationUntagged(s, i) ==
  IF i >= Len(s.lines) THEN Ok(s)
  ELSE LET line == s.lines[i + 1]
           at == parseSplitLine([s EXCEPT !.lineIndex = i], line)
       IN IF getFirstWord(line) = EndInitTag
          THEN Ok(at)
          ELSE The({IF r.raised THEN r
                    ELSE parseInitializationUntagged(
                           [r.skein EXCEPT !.output = addLine(r.skein.output, line)],
                           i + 1) :
                      r \in {InitializationLine(at, line)}})

\* a header scan that returns one line past the end of the initialization
RECURSIVE parseInitializationPastMarker(_, _)
parseInitializationPastMarker(s, i) ==
  IF i >= Len(s.lines) THEN Ok(s)
  ELSE LET line == s.lines[i + 1]
           at == parseSplitLine([s EXCEPT !.lineIndex = i], line)
       IN IF getFirstWord(line) = EndInitTag
          THEN Ok([at EXCEPT !.output = Append(at.output, Line(SkinDoneTag, <<>>)),
                             !.lineIndex = i + 1])
          ELSE The({IF r.raised THEN r
                    ELSE parseInitializationPastMarker(
                           [r.skein EXCEPT !.output = addLine(r.skein.output, line)],
                           i + 1) :
                      r \in {InitializationLine(at, line)}})

RECURSIVE parseInitializationFrom(_, _)
parseInitializationFrom(s, i) ==
  IF i >= Len(s.lines) THEN Ok(s)
  ELSE LET line == s.lines[i + 1]
           at == parseSplitLine([s EXCEPT !.lineIndex = i], line)
       IN IF getFirstWord(line) = EndInitTag
          THEN Ok([at EXCEPT !.output = Append(at.output, Line(SkinDoneTag, <<>>))])
          ELSE The({IF r.raised THEN r
                    ELSE parseInitializationFrom(
                           [r.skein EXCEPT !.output = addLine(r.skein.output, line)],
                           i + 1) :
                      r \in {InitializationLine(at, line)}})

parseInitialization(s) == parseInitializationFrom(s, 0)

\* getCraftedGcode, the two derived lengths computed after the header
\* (the first is stored before the second is computed)
DerivedLengths(s) ==
  IF IsNone(s.perimeterWidth) THEN Raise(s)
  ELSE
    LET clipped == [s EXCEPT !.clipLength =
                      Some(FMul(FMul(FHalf, s.clipOverPerimeterWidth),
                                Get(s.perimeterWidth)))]
    IN IF \/ IsNone(s.infillWidth) \/ IsNone(s.skinInfillWidth)
          \/ IsNone(s.infillPerimeterOverlap)
       THEN Raise(clipped)
       ELSE Ok([clipped EXCEPT !.skinInfillInset =
                  Some(FMul(FMul(FHalf, FAdd(Get(s.infillWidth),
                                             Get(s.skinInfillWidth))),
                            FSub(FOne, Get(s.infillPerimeterOverlap))))])

(***************************************************************************)
(* SkinSkein.parseBoundaries.  boundaryLoop is a reference: None, or the    *)
(* pair <<layer, loop>> of positions of the loop it refers to.              *)
(***************************************************************************)
LoopLayer(z) == [z |-> z, loops |-> <<>>]

RECURSIVE parseBoundariesFrom(_, _, _, _)
parseBoundariesFrom(lines, i, layers, boundaryLoop) ==
  IF i > Len(lines) THEN [raised |-> FALSE, layers |-> layers]
  ELSE
    LET line == lines[i]
        firstWord == getFirstWord(line)
    IN CASE firstWord = "(</boundaryPerimeter>)" ->
              parseBoundariesFrom(lines, i + 1, layers, None)
         [] firstWord = "(<boundaryPoint>" ->
              IF IsNone(boundaryLoop)
              THEN IF Len(layers) = 0
                   THEN [raised |-> TRUE, layers |-> layers]
                   ELSE LET n == Len(layers)
                            added == [layers EXCEPT ![n].loops =
                                        Append(@, <<line.val[1]>>)]
                        IN parseBoundariesFrom(lines, i + 1, added,
                                               Some(<<n, Len(added[n].loops)>>))
              ELSE LET ref == Get(boundaryLoop)
                       added == [layers EXCEPT ![ref[1]].loops[ref[2]] =
                                   Append(@, line.val[1])]
                   IN parseBoundariesFrom(lines, i + 1, added, boundaryLoop)
         [] firstWord = "(<layer>" ->
              parseBoundariesFrom(lines, i + 1,
                                  Append(layers, LoopLayer(float(ArgOf(line)))), boundaryLoop)
         [] OTHER -> parseBoundariesFrom(lines, i + 1, layers, boundaryLoop)

\* positions (from 0) of the boundary layers that have a loop
LayersWithLoops(layers) == {k \in 0..(Len(layers) - 1) : Len(layers[k + 1].loops) > 0}
Least(S) == CHOOSE k \in S : \A j \in S : k <= j

\* a prescan that leaves the starting layer as configured
parseBoundariesKeepingStart(s) ==
  LET r == parseBoundariesFrom(s.lines, s.lineIndex + 1, <<>>, None)
  IN IF r.raised THEN Raise(s)
     ELSE Ok([s EXCEPT !.boundaryLayers = r.layers,
                       !.layerIndexTop = Len(r.layers) - 1])

\* a prescan that reads the text from its first line
parseBoundariesWholeText(s) ==
  LET r == parseBoundariesFrom(s.lines, 1, <<>>, None)
      withLoops == LayersWithLoops(r.layers)
      scanned == [s EXCEPT !.boundaryLayers = r.layers,
                           !.layerIndexTop = Len(r.layers) - 1]
  IN IF r.raised THEN Raise(s)
     ELSE IF withLoops = {} THEN Ok(scanned)
     ELSE Ok([scanned EXCEPT !.layersFromBottom = @ + Least(withLoops)])

parseBoundaries(s) ==
  LET r == parseBoundariesFrom(s.lines, s.lineIndex + 1, <<>>, None)
      withLoops == LayersWithLoops(r.layers)
      scanned == [s EXCEPT !.boundaryLayers = r.layers,
                           !.layerIndexTop = Len(r.layers) - 1]
  IN IF r.raised THEN Raise(s)
     ELSE IF withLoops = {} THEN Ok(scanned)
     ELSE Ok([scanned EXCEPT !.layersFromBottom = @ + Least(withLoops)])

(***************************************************************************)
(* Output of generated lines.                                               *)
(***************************************************************************)
\* SkinSkein.addFlowRateLine
addFlowRateLine(out, flowRate) ==
  Append(out, Line("M108", getFourSignificantFigures(flowRate)))

\* DistanceFeedRate.getRounded: a number written to the carried places
getRounded(places, number) == getRoundedToPlacesString(places, number)

\* DistanceFeedRate.addGcodeMovementZWithFeedRate
MovementZWithFeedRate(places, feedRateMinute, point, z) ==
  G1Line(point, getRounded(places, z), getRounded(places, feedRateMinute))

\* DistanceFeedRate.addGcodeFromFeedRateThreadZ: travel to the first point,
\* then the rest of the thread with the extruder on
GcodeFromFeedRateThreadZ(places, feedRateMinute, thread, travelFeedRateMinute, z) ==
  IF Len(thread) = 0 THEN <<>>
  ELSE IF Len(thread) < 2
  THEN <<MovementZWithFeedRate(places, travelFeedRateMinute, thread[1], z)>>
  ELSE <<MovementZWithFeedRate(places, travelFeedRateMinute, thread[1], z),
         Line("M101", <<>>)>>
       \o [k \in 1..(Len(thread) - 1) |->
             MovementZWithFeedRate(places, feedRateMinute, thread[k + 1], z)]
       \o <<Line("M103", <<>>)>>

\* SkinSkein.addPerimeterLoop
addPerimeterLoop(s, thread, z) ==
  [s EXCEPT !.output =
     @ \o GcodeFromFeedRateThreadZ(s.decimalPlacesCarried, s.feedRateMinute, thread,
                                   s.travelFeedRateMinute, z)]

\* z of one vertical division:
\* bottomZ + layerThickness / verticalDivisionsFloat * verticalDivisionIndex
DivisionZ(bottomZ, layerThickness, verticalDivisions, verticalDivisionIndex) ==
  FAdd(bottomZ,
       FMul(FDiv(layerThickness, floatOfInt(verticalDivisions)),
            floatOfInt(verticalDivisionIndex)))

\* a bottom one whole layer thickness under the top
BottomZUnderLayer(topZ, layerThickness, verticalDivisions) == FSub(topZ, layerThickness)

\* oldLocation.z + layerThickness / verticalDivisionsFloat - layerThickness
BottomZ(topZ, layerThickness, verticalDivisions) ==
  FSub(FAdd(topZ, FDiv(layerThickness, floatOfInt(verticalDivisions))), layerThickness)

\* a test for two sides instead of three
getIsMinimumTwoSides(loops) == \A k \in 1..Len(loops) : ~(Len(loops[k]) < 2)

\* getIsMinimumSides(loops, 3)
getIsMinimumSides(loops) == \A k \in 1..Len(loops) : ~(Len(loops[k]) < 3)

(***************************************************************************)
(* SkinSkein.addSkinnedPerimeter.  perimeters is what the inset and clip    *)
(* of the geometry library return for the horizontal divisions.             *)
(***************************************************************************)
\* the loops of one division written last inset first
RECURSIVE AddLoopsAtZReversed(_, _, _, _)
AddLoopsAtZReversed(s, loops, k, z) ==
  IF k > Len(loops) THEN s
  ELSE addPerimeterLoop(AddLoopsAtZReversed(s, loops, k + 1, z), loops[k], z)

\* for perimeter in perimeters: addPerimeterLoop(perimeter, z)
RECURSIVE AddLoopsAtZ(_, _, _, _)
AddLoopsAtZ(s, loops, k, z) ==
  IF k > Len(loops) THEN s
  ELSE AddLoopsAtZ(addPerimeterLoop(s, loops[k], z), loops, k + 1, z)

RECURSIVE AddDivisions(_, _, _, _)
AddDivisions(s, loops, bottomZ, verticalDivisionIndex) ==
  IF verticalDivisionIndex >= s.verticalDivisions THEN s
  ELSE AddDivisions(
         AddLoopsAtZ(s, loops, 1,
                     DivisionZ(bottomZ, Get(s.layerThickness), s.verticalDivisions,
                               verticalDivisionIndex)),
         loops, bottomZ, verticalDivisionIndex + 1)

\* a perimeter generator that keeps the buffer it has written
SkinnedPerimeterKept(s, perimeters) ==
  IF \/ IsNone(s.oldLocation) \/ IsNone(s.layerThickness)
     \/ IsNone(s.perimeterWidth)
     \/ s.horizontalPerimeterDivisionsFloat = 0
     \/ IsNone(s.oldFlowRate)
  THEN Raise(s)
  ELSE
    LET bottomZ == BottomZ(Get(s.oldLocation).z, Get(s.layerThickness), s.verticalDivisions)
        skinnedPerimeterFlowRate ==
          FDiv(Get(s.oldFlowRate), floatOfInt(s.verticalDivisions))
        scaled ==
          IF getIsMinimumSides(perimeters)
          THEN AddDivisions(
                 [s EXCEPT !.output = addFlowRateLine(@,
                     FDiv(skinnedPerimeterFlowRate,
                          floatOfInt(s.horizontalPerimeterDivisionsFloat)))],
                 perimeters, bottomZ, 0)
          ELSE AddDivisions(
                 [s EXCEPT !.output = addFlowRateLine(@, skinnedPerimeterFlowRate)],
                 <<Get(s.perimeter)>>, bottomZ, 0)
    IN Ok([scaled EXCEPT !.output = addFlowRateLine(@, Get(s.oldFlowRate))])

\* addSkinnedPerimeter after its guard
SkinnedPerimeter(s, perimeters) ==
  IF \/ IsNone(s.oldLocation) \/ IsNone(s.layerThickness)
     \/ IsNone(s.perimeterWidth)
     \/ s.horizontalPerimeterDivisionsFloat = 0
     \/ IsNone(s.oldFlowRate)
  THEN Raise(s)
  ELSE
    LET bottomZ == BottomZ(Get(s.oldLocation).z, Get(s.layerThickness), s.verticalDivisions)
        skinnedPerimeterFlowRate ==
          FDiv(Get(s.oldFlowRate), floatOfInt(s.verticalDivisions))
        scaled ==
          IF getIsMinimumSides(perimeters)
          THEN AddDivisions(
                 [s EXCEPT !.output = addFlowRateLine(@,
                     FDiv(skinnedPerimeterFlowRate,
                          floatOfInt(s.horizontalPerimeterDivisionsFloat)))],
                 perimeters, bottomZ, 0)
          ELSE AddDivisions(
                 [s EXCEPT !.output = addFlowRateLine(@, skinnedPerimeterFlowRate)],
                 <<Get(s.perimeter)>>, bottomZ, 0)
    IN Ok([scaled EXCEPT !.output = addFlowRateLine(@, Get(s.oldFlowRate)),
                         !.perimeter = None])

\* a generator that fails when no perimeter is being captured
addSkinnedPerimeterStrict(s, perimeters) ==
  IF IsNone(s.perimeter) THEN Raise(s) ELSE SkinnedPerimeter(s, perimeters)

addSkinnedPerimeter(s, perimeters) ==
  IF IsNone(s.perimeter) THEN Ok(s) ELSE SkinnedPerimeter(s, perimeters)

(***************************************************************************)
(* SkinSkein.addSkinnedInfill.  infillPaths[k] is the list of paths the     *)
(* geometry library reconstructs for vertical division k.                   *)
(***************************************************************************)
\* the loop over infillPaths of addSkinnedInfillBoundary
RECURSIVE AddInfillPaths(_, _, _, _, _)
AddInfillPaths(s, paths, k, upperZ, z) ==
  IF k > Len(paths) THEN s
  ELSE
    LET infillRotated == paths[k]
        hop == FLess(z, upperZ) /\ s.repository.hopWhenExtrudingInfill
        before == IF hop
                  THEN <<MovementZWithFeedRate(s.decimalPlacesCarried,
                                               s.maximumZFeedRateMinute,
                                               infillRotated[1], upperZ)>>
                  ELSE <<>>
        lastPointRotated == infillRotated[Len(infillRotated)]
        after == IF hop
                 THEN <<MovementZWithFeedRate(s.decimalPlacesCarried,
                                              s.maximumZFeedRateMinute,
                                              lastPointRotated, upperZ)>>
                 ELSE <<>>
        thread == GcodeFromFeedRateThreadZ(s.decimalPlacesCarried, s.feedRateMinute,
                                           infillRotated, s.travelFeedRateMinute, z)
    IN AddInfillPaths(
         [s EXCEPT !.output = @ \o before \o thread \o after,
                   !.oldLocation = Some([point |-> lastPointRotated, z |-> upperZ])],
         paths, k + 1, upperZ, z)

\* SkinSkein.addSkinnedInfillBoundary
addSkinnedInfillBoundary(s, paths, upperZ, z) ==
  IF Len(Get(s.infillBoundaries)) > 0 /\ IsNone(s.rotation) THEN Raise(s)
  ELSE Ok(AddInfillPaths(s, paths, 1, upperZ, z))

RECURSIVE AddInfillDivisions(_, _, _, _)
AddInfillDivisions(s, infillPaths, bottomZ, verticalDivisionIndex) ==
  IF verticalDivisionIndex >= s.verticalDivisions THEN Ok(s)
  ELSE
    The({IF r.raised THEN r
         ELSE AddInfillDivisions(r.skein, infillPaths, bottomZ, verticalDivisionIndex + 1) :
           r \in {addSkinnedInfillBoundary(
                    s, infillPaths[verticalDivisionIndex + 1], Get(s.oldLocation).z,
                    DivisionZ(bottomZ, Get(s.layerThickness), s.verticalDivisions,
                              verticalDivisionIndex))}})

\* the reference infillBoundary no longer refers to a loop of the open set
Detached(infillBoundary) ==
  IF IsNone(infillBoundary) THEN None
  ELSE Some([Get(infillBoundary) EXCEPT !.attached = FALSE])

\* an infill generator that leaves the scaled flow rate in force
SkinnedInfillUnrestored(s, infillPaths) ==
  IF \/ IsNone(s.oldLocation) \/ IsNone(s.layerThickness)
     \/ IsNone(s.skinInfillWidth) \/ IsNone(s.oldFlowRate)
     \/ s.horizontalInfillDivisionsFloat = 0
  THEN Raise(s)
  ELSE
    LET bottomZ == BottomZ(Get(s.oldLocation).z, Get(s.layerThickness), s.verticalDivisions)
        scaled == [s EXCEPT !.output = addFlowRateLine(@,
                     FDiv(FDiv(Get(s.oldFlowRate), floatOfInt(s.verticalDivisions)),
                          floatOfInt(s.horizontalInfillDivisionsFloat)))]
    IN The({IF r.raised THEN r
            ELSE Ok([r.skein EXCEPT !.infillBoundaries = None,
                                    !.infillBoundary = Detached(@)]) :
              r \in {AddInfillDivisions(scaled, infillPaths, bottomZ, 0)}})

\* addSkinnedInfill after its guard
SkinnedInfill(s, infillPaths) ==
  IF \/ IsNone(s.oldLocation) \/ IsNone(s.layerThickness)
     \/ IsNone(s.skinInfillWidth) \/ IsNone(s.oldFlowRate)
     \/ s.horizontalInfillDivisionsFloat = 0
  THEN Raise(s)
  ELSE
    LET bottomZ == BottomZ(Get(s.oldLocation).z, Get(s.layerThickness), s.verticalDivisions)
        scaled == [s EXCEPT !.output = addFlowRateLine(@,
                     FDiv(FDiv(Get(s.oldFlowRate), floatOfInt(s.verticalDivisions)),
                          floatOfInt(s.horizontalInfillDivisionsFloat)))]
    IN The({IF r.raised THEN r
            ELSE Ok([r.skein EXCEPT !.output = addFlowRateLine(@, Get(s.oldFlowRate)),
                                    !.infillBoundaries = None,
                                    !.infillBoundary = Detached(@)]) :
              r \in {AddInfillDivisions(scaled, infillPaths, bottomZ, 0)}})

addSkinnedInfill(s, infillPaths) ==
  IF IsNone(s.infillBoundaries) THEN Ok(s) ELSE SkinnedInfill(s, infillPaths)

(***************************************************************************)
(* SkinSkein.parseLine.  infillBoundary is a reference to a loop: None, or  *)
(* [attached, points] where attached tells whether the loop is the last     *)
(* member of the open infillBoundaries list.                                *)
(***************************************************************************)
\* gcodec.getLocationFromSplitLine: a missing Z word keeps the old z
getLocationFromSplitLine(oldLocation, line) ==
  LET oldZ == IF IsNone(oldLocation) THEN Zero ELSE Get(oldLocation).z
  IN [point |-> G1Point(line),
      z |-> IF G1Z(line)[2] = 0 THEN oldZ ELSE float(G1Z(line))]

\* gcodec.getFeedRateMinute: a missing F word keeps the old feed rate
getFeedRateMinute(feedRateMinute, line) ==
  IF G1F(line)[2] = 0 THEN feedRateMinute ELSE float(G1F(line))

\* a scanner that withholds every line while a capture buffer is open
ForwardWhileIdle(s, line) ==
  IF ~IsNone(s.perimeter) \/ ~IsNone(s.infillBoundaries) THEN s
  ELSE [s EXCEPT !.output = addLine(@, line)]

\* the last statement of parseLine
Forward(s, line) == [s EXCEPT !.output = addLine(@, line)]

\* a movement handler that looks at the perimeter buffer first
parseMovementPerimeterFirst(s, line) ==
  LET location == getLocationFromSplitLine(s.oldLocation, line)
      moved == [s EXCEPT !.feedRateMinute = getFeedRateMinute(@, line),
                         !.oldLocation = Some(location)]
  IN IF ~IsNone(s.perimeter)
     THEN [moved EXCEPT !.perimeter = Some(Append(Get(@), location.point))]
     ELSE IF ~IsNone(s.infillBoundaries) THEN moved
     ELSE Forward(moved, line)

\* the G1 branch of parseLine
parseMovement(s, line) ==
  LET location == getLocationFromSplitLine(s.oldLocation, line)
      moved == [s EXCEPT !.feedRateMinute = getFeedRateMinute(@, line),
                         !.oldLocation = Some(location)]
  IN IF ~IsNone(s.infillBoundaries) THEN moved
     ELSE IF ~IsNone(s.perimeter)
     THEN [moved EXCEPT !.perimeter = Some(Append(Get(@), location.point))]
     ELSE Forward(moved, line)

\* a test that looks at the perimeter buffer alone
IsCapturingPerimeter(s) == ~IsNone(s.perimeter)

\* the test of the extruder commands: a capture buffer is open
IsCapturing(s) == ~IsNone(s.infillBoundaries) \/ ~IsNone(s.perimeter)

\* an infill test that does not look at the top layer
IsInfillLayerAnyLayer(s) == s.layerIndex >= s.layersFromBottom

\* the test of the start of infill
IsInfillLayer(s) ==
  s.layerIndex >= s.layersFromBottom /\ s.layerIndex = s.layerIndexTop

parseLine(s, line, perimeters, infillPaths) ==
  LET firstWord == line.tag
  IN
  IF HasNoWord(line) THEN Ok(s)
  ELSE CASE
    firstWord = "G1" -> Ok(parseMovement(s, line))
    [] firstWord = "(<infill>)" ->
      IF IsInfillLayer(s)
      THEN Ok(Forward([s EXCEPT !.infillBoundaries = Some(<<>>),
                                !.infillBoundary = Detached(@)], line))
      ELSE Ok(Forward(s, line))
    [] firstWord = "(</infill>)" ->
      The({IF r.raised THEN r ELSE Ok(Forward(r.skein, line)) :
             r \in {addSkinnedInfill(s, infillPaths)}})
    [] firstWord = "(<infillBoundary>)" ->
      IF ~IsNone(s.infillBoundaries)
      THEN Ok(Forward([s EXCEPT
                 !.infillBoundary = Some([attached |-> TRUE, points |-> <<>>]),
                 !.infillBoundaries = Some(Append(Get(@), <<>>))], line))
      ELSE Ok(Forward(s, line))
    [] firstWord = "(<infillPoint>" ->
      IF ~IsNone(s.infillBoundaries)
      THEN IF IsNone(s.infillBoundary) THEN Raise(s)
           ELSE LET ref == Get(s.infillBoundary)
                    loops == Get(s.infillBoundaries)
                    grown == [ref EXCEPT !.points = Append(@, line.val[1])]
                IN Ok(Forward([s EXCEPT
                      !.infillBoundary = Some(grown),
                      !.infillBoundaries =
                         IF ref.attached
                         THEN Some([loops EXCEPT ![Len(loops)] = grown.points])
                         ELSE @], line))
      ELSE Ok(Forward(s, line))
    [] firstWord = "(<layer>" ->
      Ok(Forward([s EXCEPT !.layerIndex = @ + 1], line))
    [] firstWord \in {"M101", "M103"} ->
      IF IsCapturing(s) THEN Ok(s)
      ELSE Ok(Forward(s, line))
    [] firstWord = "M108" ->
      Ok(Forward([s EXCEPT !.oldFlowRate = Some(float(ArgOf(line)))], line))
    [] firstWord = "(<perimeter>" ->
      IF s.layerIndex >= s.layersFromBottom
      THEN Ok(Forward([s EXCEPT !.perimeter = Some(<<>>)], line))
      ELSE Ok(Forward(s, line))
    [] firstWord = "(<rotation>" ->
      Ok(Forward([s EXCEPT !.rotation = Some(ArgOf(line))], line))
    [] firstWord = "(</perimeter>)" ->
      The({IF r.raised THEN r ELSE Ok(Forward(r.skein, line)) :
             r \in {addSkinnedPerimeter(s, perimeters)}})
    [] OTHER -> Ok(Forward(s, line))

(***************************************************************************)
(* gcodec.getGcodeWithoutDuplication('M108', text): of flow rate lines      *)
(* with no movement or extruder command between them only the last is       *)
(* kept, in the place of the first; blank lines are dropped.                *)
(***************************************************************************)
RECURSIVE WithoutDuplicationFrom(_, _, _, _)
WithoutDuplicationFrom(lines, i, kept, oldDuplicationIndex) ==
  IF i > Len(lines) THEN kept
  ELSE
    LET line == lines[i]
        firstWord == getFirstWord(line)
    IN IF firstWord = "M108"
       THEN IF oldDuplicationIndex = 0
            THEN WithoutDuplicationFrom(lines, i + 1, Append(kept, line), Len(kept) + 1)
            ELSE WithoutDuplicationFrom(lines, i + 1,
                                        [kept EXCEPT ![oldDuplicationIndex] = line],
                                        oldDuplicationIndex)
       ELSE IF firstWord \in {"G1", "M101", "M103"}
       THEN WithoutDuplicationFrom(lines, i + 1, Append(kept, line), 0)
       ELSE WithoutDuplicationFrom(lines, i + 1, addLine(kept, line), oldDuplicationIndex)

getGcodeWithoutDuplication(text) ==
  getvalue(WithoutDuplicationFrom(getTextLines(text), 1, <<>>, 0))

(***************************************************************************)
(* Inputs: gcode texts and repositories (settings).                         *)
(***************************************************************************)
Repository(activate, infillDivisions, perimeterDivisions, vertical, hop, layersFrom) ==
  [ activateSkin |-> activate,
    horizontalInfillDivisions |-> infillDivisions,
    horizontalPerimeterDivisions |-> perimeterDivisions,
    verticalDivisions |-> vertical,
    hopWhenExtrudingInfill |-> hop,
    layersFrom |-> layersFrom ]

\* header lines
PerimeterWidthLine == Line("(<perimeterWidth>", <<3, 5>>)
InfillWidthLine == Line("(<infillWidth>", <<1, 2>>)
OverlapLine == Line("(<infillPerimeterOverlap>", <<1, 4>>)
ThicknessLine == Line("(<layerThickness>", <<2, 5>>)
FlowLine(rate) == Line("(<operatingFlowRate>", rate)
ClipLine == Line("(<clipOverPerimeterWidth>", <<1, 5>>)
TravelLine == Line("(<travelFeedRatePerSecond>", <<16, 1>>)
MaximumZLine == Line("(<maximumZFeedRatePerSecond>", <<2, 1>>)
DecimalPlacesLine == Line("(<decimalPlacesCarried>", <<2, 1>>)
EndInit == Line(EndInitTag, <<>>)
SkinDone == Line(SkinDoneTag, <<>>)
FillDone == Line("(<procedureName> fill </procedureName>)", <<>>)

\* body lines
Layer == Line("(<layer>", <<1, 1>>)
PerimeterStart == Line("(<perimeter>", <<>>)
PerimeterEnd == Line("(</perimeter>)", <<>>)
InfillStart == Line("(<infill>)", <<>>)
InfillEnd == Line("(</infill>)", <<>>)
InfillBoundaryStart == Line("(<infillBoundary>)", <<>>)
InfillPoint(x) == Line("(<infillPoint>", <<x>>)
BoundaryPoint(x) == Line("(<boundaryPoint>", <<x>>)
BoundaryEnd == Line("(</boundaryPerimeter>)", <<>>)
Rotation == Line("(<rotation>", <<1, 1>>)
ExtruderOn == Line("M101", <<>>)
ExtruderOff == Line("M103", <<>>)
FlowRate(rate) == Line("M108", rate)
Other == Line("M104", <<200, 1>>)
MoveA == G1Line(1, <<6, 5>>, NoWord)
MoveB == G1Line(2, NoWord, <<600, 1>>)
MoveC == G1Line(3, NoWord, NoWord)

PlainRate == <<2, 1>>
LongRate == <<6173, 5000>>

Header(rate) == <<FillDone, PerimeterWidthLine, InfillWidthLine, OverlapLine,
                  ThicknessLine, FlowLine(rate)>>
StdHeader == Header(PlainRate) \o <<EndInit>>

\* all sequences of at most n elements of S
RECURSIVE SeqsUpTo(_, _)
SeqsUpTo(S, n) ==
  IF n = 0 THEN {<<>>}
  ELSE LET shorter == SeqsUpTo(S, n - 1)
       IN shorter \cup {Append(q, x) : q \in {t \in shorter : Len(t) = n - 1}, x \in S}

Divisions == 1..MaxDivisions

\* body lines met in any order after a prefix that opens each capture state
FreeLines == {MoveA, MoveB, ExtruderOn, FlowRate(<<3, 1>>), Layer, PerimeterStart,
              PerimeterEnd, InfillStart, InfillEnd, InfillBoundaryStart,
              InfillPoint(7), Other, Comment}
Prefixes == { <<>>,
              <<Layer, PerimeterStart>>,
              <<Layer, PerimeterStart, MoveA, MoveB, MoveC, MoveA>>,
              <<Layer, InfillStart>>,
              <<Layer, Rotation, MoveA, InfillStart, InfillBoundaryStart,
                InfillPoint(8), InfillPoint(9)>> }
\* an infill region inside a perimeter region, and a second infill region
DeepPrefixes == { <<Layer, PerimeterStart, MoveA, InfillStart, MoveB, InfillEnd, MoveA>>,
                  <<Layer, Rotation, MoveA, InfillStart, InfillBoundaryStart,
                    InfillPoint(8), InfillPoint(9), InfillEnd, InfillStart>> }
ScanScenarios ==
  { [text |-> StdHeader \o pre \o free,
     repo |-> Repository(TRUE, MaxDivisions, MaxDivisions, MaxDivisions, TRUE, 0)] :
      pre \in Prefixes, free \in SeqsUpTo(FreeLines, MaxFree) }
  \cup
  { [text |-> StdHeader \o pre \o free,
     repo |-> Repository(TRUE, MaxDivisions, MaxDivisions, MaxDivisions, TRUE, 0)] :
      pre \in DeepPrefixes, free \in SeqsUpTo(FreeLines, 1) }

\* one perimeter and one infill region under every division setting
PerimeterBody == <<Layer, PerimeterStart, MoveA, ExtruderOn, MoveB,
                   MoveC, MoveA, ExtruderOff, PerimeterEnd, Other, Blank>>
InfillBody == <<Layer, Rotation, MoveA, InfillStart, InfillBoundaryStart, InfillPoint(7),
                InfillPoint(8), InfillPoint(9), InfillEnd, Other, Blank>>
DivisionScenarios ==
  { [text |-> Header(rate) \o extra \o <<EndInit>> \o body,
     repo |-> Repository(TRUE, hi, hp, v, hop, 0)] :
      rate \in {PlainRate, LongRate},
      extra \in {<<>>, <<ClipLine, TravelLine, MaximumZLine, DecimalPlacesLine>>},
      body \in {PerimeterBody, InfillBody},
      hi \in {1, MaxDivisions}, hp \in Divisions, v \in Divisions, hop \in BOOLEAN }

\* an infill region under a top z whose lowest pass is computed just below it
LowInfillBody == <<Layer, Rotation, G1Line(1, <<1, 1>>, NoWord), InfillStart,
                   InfillBoundaryStart, InfillPoint(7), InfillPoint(8), InfillPoint(9),
                   InfillEnd, Other, Blank>>
TopScenarios ==
  { [text |-> StdHeader \o LowInfillBody,
     repo |-> Repository(TRUE, 1, 1, v, hop, 0)] :
      v \in Divisions, hop \in BOOLEAN }

\* layers with and without boundary loops, each probed for capture
LayerBlocks == { <<Layer, PerimeterStart, InfillStart>>,
                 <<Layer, BoundaryPoint(4), BoundaryPoint(5), BoundaryEnd,
                   PerimeterStart, InfillStart>> }
RECURSIVE Flatten(_)
Flatten(seqs) == IF Len(seqs) = 0 THEN <<>> ELSE Head(seqs) \o Flatten(Tail(seqs))
GateScenarios ==
  { [text |-> StdHeader \o pre \o Flatten(blocks) \o <<Blank>>,
     repo |-> Repository(TRUE, 1, 1, 1, FALSE, k)] :
      pre \in {<<>>, <<PerimeterStart>>, <<BoundaryPoint(4)>>},
      blocks \in SeqsUpTo(LayerBlocks, MaxLayers),
      k \in 0..MaxLayersFrom }

\* short circuits, incomplete headers, texts with and without a last newline
EdgeTexts ==
  { EmptyText,
    <<Blank, Blank>>,
    <<MoveA>>,
    Header(PlainRate),
    Header(PlainRate) \o <<Blank>>,
    Header(PlainRate) \o <<FlowRate(PlainRate)>>,
    Header(PlainRate) \o <<Comment, Blank, Other>>,
    Header(PlainRate) \o <<SkinDone>>,
    <<EndInit>>,
    <<PerimeterWidthLine, InfillWidthLine, EndInit, Layer, PerimeterStart, PerimeterEnd>>,
    <<PerimeterWidthLine, InfillWidthLine, OverlapLine, EndInit, Layer, PerimeterStart,
      MoveA, PerimeterEnd>>,
    <<PerimeterWidthLine, InfillWidthLine, OverlapLine, ThicknessLine, EndInit, Layer,
      PerimeterStart, MoveA, PerimeterEnd, Blank>>,
    <<PerimeterWidthLine, InfillWidthLine, OverlapLine, ThicknessLine, EndInit, Layer,
      FlowRate(PlainRate), FlowRate(LongRate), PerimeterStart, MoveA, PerimeterEnd,
      FlowRate(PlainRate), Blank>>,
    Header(PlainRate) \o <<SkinDone, EndInit, Layer, PerimeterStart, MoveA, PerimeterEnd>>,
    Header(PlainRate) \o <<EndInit, SkinDone, Layer, PerimeterStart, MoveA, PerimeterEnd>>,
    StdHeader \o <<Comment, Blank, Layer, Blank, Other, Blank>>,
    StdHeader \o <<Layer, Layer, FlowRate(PlainRate), PerimeterStart, MoveA, MoveB, MoveC,
                   MoveA, PerimeterEnd, Blank>>,
    Header(PlainRate) \o <<Layer>>,
    Header(PlainRate) \o <<Blank, Comment, Layer, EndInit, Layer, PerimeterStart, MoveA,
                           EndInit, PerimeterEnd, Blank>> }
EdgeScenarios ==
  { [text |-> t, repo |-> Repository(a, 2, 1, 2, FALSE, 1)] :
      t \in EdgeTexts \cup {s.text : s \in {c \in ScanScenarios : Len(c.text) <= 9}},
      a \in BOOLEAN }

\* layer, boundary point and end of boundary lines in every order
PrescanScenarios ==
  { [text |-> StdHeader \o body \o <<Blank>>,
     repo |-> Repository(TRUE, 1, 1, 1, FALSE, 0)] :
      body \in SeqsUpTo({Layer, BoundaryPoint(4), BoundaryPoint(5), BoundaryEnd},
                         MaxPrescan) }

\* division settings outside the range the settings dialog offers
UnclampedDivisions == {-1, 0, 1}
ClampScenarios ==
  { [text |-> StdHeader \o body,
     repo |-> Repository(TRUE, hi, hp, v, FALSE, 0)] :
      body \in {PerimeterBody, InfillBody},
      hi \in UnclampedDivisions, hp \in UnclampedDivisions, v \in UnclampedDivisions }

\* one perimeter and one infill region under a flow rate whose double is
\* just under a power of ten
NearTenScenarios ==
  { [text |-> Header(<<1, 1000000>>) \o <<EndInit>> \o body,
     repo |-> Repository(TRUE, 1, 1, v, FALSE, 0)] :
      body \in {PerimeterBody, InfillBody}, v \in Divisions }

Scenarios ==
  ScanScenarios \cup DivisionScenarios \cup TopScenarios \cup GateScenarios
    \cup EdgeScenarios \cup ClampScenarios \cup PrescanScenarios
    \cup NearTenScenarios

\* the Pythons the plugin runs under; the division scenarios are run under
\* both, the others under the later one
RuntimesOf(sc) == IF sc \in DivisionScenarios THEN {"2.6", "2.7"} ELSE {"2.7"}

(***************************************************************************)
(* What the geometry library can return.                                    *)
(***************************************************************************)
\* the clipped inset path of one horizontal division: no point, two points,
\* or a closed path of four
InsetPath(division, n) ==
  IF n = 4 THEN <<10 * division + 1, 10 * division + 2, 10 * division + 3,
                  10 * division + 1>>
  ELSE [k \in 1..n |-> 10 * division + k]
InsetLengths == {0, 2, 4}
PathLists == { <<>>, << <<21, 22>> >>, << <<21, 22>>, <<23, 24, 25>> >> }

(***************************************************************************)
(* State.                                                                   *)
(***************************************************************************)
VARIABLES
  gcodeText,      \* the text given to getCraftedTextFromText
  repository,     \* the settings given to it
  pc,             \* where the call is
  skein,          \* the SkinSkein object
  perimeters,     \* the inset paths of the last addSkinnedPerimeter
  infillPaths,    \* the paths of the last addSkinnedInfill, per division
  craftedText,    \* the text returned, None until the call returns
  run,            \* 1 for the call on the input, 2 for the call on its result
  firstCrafted    \* the text the first call returned

vars == <<gcodeText, repository, runtime, libm, pc, skein, perimeters, infillPaths, craftedText,
          run, firstCrafted>>

Init ==
  /\ \E sc \in Scenarios :
       /\ gcodeText = sc.text
       /\ repository = sc.repo
       /\ runtime \in RuntimesOf(sc)
       /\ libm \in IF sc \in NearTenScenarios THEN {"below", "above"} ELSE {"above"}
  /\ pc = "getCraftedTextFromText"
  /\ skein = NewSkinSkein
  /\ perimeters = <<>>
  /\ infillPaths = <<>>
  /\ craftedText = None
  /\ run = 1
  /\ firstCrafted = None

\* a getCraftedTextFromText that does not look at the activation setting
GetCraftedTextAlways ==
  /\ pc = "getCraftedTextFromText"
  /\ IF isProcedureDoneOrFileIsEmpty(gcodeText)
     THEN /\ craftedText' = Some(gcodeText)
          /\ pc' = "returned"
          /\ UNCHANGED skein
     ELSE /\ skein' = BeginCraftedGcode(gcodeText, repository)
          /\ pc' = "parseInitialization"
          /\ UNCHANGED craftedText
  /\ UNCHANGED <<gcodeText, repository, runtime, libm, perimeters, infillPaths, run,
                 firstCrafted>>

\* getCraftedTextFromText up to the first statements of getCraftedGcode
GetCraftedTextFromText ==
  /\ pc = "getCraftedTextFromText"
  /\ IF isProcedureDoneOrFileIsEmpty(gcodeText) \/ ~repository.activateSkin
     THEN /\ craftedText' = Some(gcodeText)
          /\ pc' = "returned"
          /\ UNCHANGED skein
     ELSE /\ skein' = BeginCraftedGcode(gcodeText, repository)
          /\ pc' = "parseInitialization"
          /\ UNCHANGED craftedText
  /\ UNCHANGED <<gcodeText, repository, runtime, libm, perimeters, infillPaths, run,
                 firstCrafted>>

ParseInitialization ==
  /\ pc = "parseInitialization"
  /\ \E r \in {parseInitialization(skein)} :
       /\ skein' = r.skein
       /\ pc' = IF r.raised THEN "raised" ELSE "parseBoundaries"
  /\ UNCHANGED <<gcodeText, repository, runtime, libm, perimeters, infillPaths, craftedText,
                 run, firstCrafted>>

\* getCraftedGcode from the derived lengths to the end of parseBoundaries
ParseBoundaries ==
  /\ pc = "parseBoundaries"
  /\ \E d \in {DerivedLengths(skein)} :
       \E r \in {IF d.raised THEN d ELSE parseBoundaries(d.skein)} :
         /\ skein' = r.skein
         /\ pc' = IF r.raised THEN "raised" ELSE "parseLine"
  /\ UNCHANGED <<gcodeText, repository, runtime, libm, perimeters, infillPaths, craftedText,
                 run, firstCrafted>>

\* one turn of the loop of getCraftedGcode over the body lines
ParseLine ==
  /\ pc = "parseLine"
  /\ LET line == skein.lines[skein.lineIndex + 1]
         insets == IF line.tag = "(</perimeter>)" /\ ~IsNone(skein.perimeter)
                   THEN [1..Max(repository.horizontalPerimeterDivisions, 0) -> InsetLengths]
                   ELSE {<<>>}
         paths == IF /\ line.tag = "(</infill>)"
                     /\ ~IsNone(skein.infillBoundaries)
                     /\ \E k \in 1..Len(Get(skein.infillBoundaries)) :
                           Len(Get(skein.infillBoundaries)[k]) > 0
                  THEN [1..skein.verticalDivisions -> PathLists]
                  ELSE {[k \in 1..skein.verticalDivisions |-> <<>>]}
     IN \E lengths \in insets, found \in paths :
          \E loops \in {[k \in 1..Len(lengths) |-> InsetPath(k, lengths[k])]} :
          \E r \in {parseLine(skein, line, loops, found)} :
             /\ perimeters' = loops
             /\ infillPaths' = found
             /\ IF r.raised
                THEN /\ skein' = r.skein
                     /\ pc' = "raised"
                ELSE IF skein.lineIndex + 1 < Len(skein.lines)
                THEN /\ skein' = [r.skein EXCEPT !.lineIndex = @ + 1]
                     /\ pc' = "parseLine"
                ELSE /\ skein' = r.skein
                     /\ pc' = "return"
  /\ UNCHANGED <<gcodeText, repository, runtime, libm, craftedText, run, firstCrafted>>

\* the return statement of getCraftedGcode
ReturnCraftedGcode ==
  /\ pc = "return"
  /\ craftedText' = Some(getGcodeWithoutDuplication(getvalue(skein.output)))
  /\ pc' = "returned"
  /\ UNCHANGED <<gcodeText, repository, runtime, libm, skein, perimeters, infillPaths, run,
                 firstCrafted>>

\* a second call of getCraftedTextFromText, with the text the first call
\* returned as its gcodeText and the same repository (the function is called
\* directly, not through getCraftedText: no file is read)
CraftAgain ==
  /\ pc = "returned"
  /\ run = 1
  /\ gcodeText' = Get(craftedText)
  /\ firstCrafted' = craftedText
  /\ craftedText' = None
  /\ run' = 2
  /\ pc' = "getCraftedTextFromText"
  /\ skein' = NewSkinSkein
  /\ perimeters' = <<>>
  /\ infillPaths' = <<>>
  /\ UNCHANGED <<repository, runtime, libm>>

Next ==
  \/ GetCraftedTextFromText
  \/ ParseInitialization
  \/ ParseBoundaries
  \/ ParseLine
  \/ ReturnCraftedGcode
  \/ CraftAgain

Spec == Init /\ [][Next]_vars

(***************************************************************************)
(* Properties.                                                              *)
(***************************************************************************)
HasTag(text, tag) == \E i \in 1..Len(text) : text[i].tag = tag
InBody == pc \in {"parseLine", "return"}

\* the line a ParseLine step parses, and the lines the step writes
CurrentLine == skein.lines[skein.lineIndex + 1]
Written == SubSeq(skein'.output, Len(skein.output) + 1, Len(skein'.output))
KeepsOutput ==
  /\ Len(skein'.output) >= Len(skein.output)
  /\ SubSeq(skein'.output, 1, Len(skein.output)) = skein.output
ParseLineStep == pc = "parseLine" /\ pc' \in {"parseLine", "return"}

\* C1: a call whose input holds the skin procedure tag, or is empty, or
\* whose activation setting is off, returns the input text itself and
\* leaves the scanner as constructed (nothing is parsed).
C1_ShortCircuit ==
  (/\ pc = "returned"
   /\ \/ HasTag(gcodeText, SkinDoneTag)
      \/ gcodeText = EmptyText
      \/ ~repository.activateSkin)
  => craftedText = Some(gcodeText) /\ skein = NewSkinSkein

C1_Witness ==
  /\ pc = "returned"
  /\ run = 1
  /\ ~repository.activateSkin
  /\ ~HasTag(gcodeText, SkinDoneTag)
  /\ HasTag(gcodeText, "(</perimeter>)")
  /\ craftedText = Some(gcodeText)

\* C2: crafting the text a first activated call returned gives that same
\* text again.
C2_Idempotent ==
  (run = 2 /\ pc = "returned") => craftedText = firstCrafted

C2_Witness ==
  /\ run = 2
  /\ pc = "returned"
  /\ repository.activateSkin
  /\ HasTag(Get(firstCrafted), SkinDoneTag)
  /\ HasTag(Get(firstCrafted), "M103")
  /\ craftedText = firstCrafted

RecognizedTags ==
  {"G1", "(<infill>)", "(</infill>)", "(<infillBoundary>)", "(<infillPoint>",
   "(<layer>", "M101", "M103", "M108", "(<perimeter>", "(<rotation>", "(</perimeter>)"}

\* C3 as stated: every body line that is not blank and whose leading tag is
\* not a recognized one is written to the output unchanged.
C3_EveryLineForwarded ==
  [][(pc = "parseLine" /\ CurrentLine # Blank /\ CurrentLine.tag \notin RecognizedTags)
       => (ParseLineStep /\ KeepsOutput /\ Written = <<CurrentLine>>)]_vars

\* C3 amended: every body line that has a word, the first of which is not a
\* recognized tag, is written to the output unchanged and once, whatever
\* the capture state, and the lines written for any other line carry
\* recognized tags only; a line without a word writes nothing.
C3_WordedLineForwarded ==
  [][pc = "parseLine" =>
       IF HasNoWord(CurrentLine)
       THEN ParseLineStep /\ skein'.output = skein.output
       ELSE IF CurrentLine.tag \notin RecognizedTags
       THEN ParseLineStep /\ KeepsOutput /\ Written = <<CurrentLine>>
       ELSE ParseLineStep =>
              /\ KeepsOutput
              /\ \A k \in 1..Len(Written) : Written[k].tag \in RecognizedTags]_vars

C3_Witness ==
  /\ pc = "parseLine"
  /\ skein.lineIndex > 0
  /\ skein.lines[skein.lineIndex] = Other
  /\ ~IsNone(skein.perimeter)
  /\ Len(Get(skein.perimeter)) > 0
  /\ skein.output[Len(skein.output)] = Other

\* C4: in the body scan the starting layer is the configured one plus the
\* position of the first boundary layer that has a loop (the configured one
\* when no layer has a loop), and no perimeter or infill buffer is open
\* while the layer index is below it.
FirstWithLoops(k) ==
  /\ k \in 0..(Len(skein.boundaryLayers) - 1)
  /\ skein.boundaryLayers[k + 1].loops # <<>>
  /\ \A j \in 0..(k - 1) : skein.boundaryLayers[j + 1].loops = <<>>
C4_StartingLayer ==
  InBody =>
    /\ \A k \in 0..(Len(skein.boundaryLayers) - 1) :
         FirstWithLoops(k) => skein.layersFromBottom = repository.layersFrom + k
    /\ (\A k \in 0..(Len(skein.boundaryLayers) - 1) : ~FirstWithLoops(k))
         => skein.layersFromBottom = repository.layersFrom
    /\ skein.layerIndex < skein.layersFromBottom
         => IsNone(skein.perimeter) /\ IsNone(skein.infillBoundaries)

C4_Witness ==
  /\ InBody
  /\ repository.layersFrom = 1
  /\ FirstWithLoops(2)
  /\ skein.layersFromBottom = 3
  /\ skein.layerIndex = 3
  /\ ~IsNone(skein.perimeter)

(***************************************************************************)
(* Steps in which a generator runs on an open buffer and returns.           *)
(***************************************************************************)
PerimeterGenerated ==
  /\ ParseLineStep
  /\ CurrentLine.tag = "(</perimeter>)"
  /\ ~IsNone(skein.perimeter)
InfillGenerated ==
  /\ ParseLineStep
  /\ CurrentLine.tag = "(</infill>)"
  /\ ~IsNone(skein.infillBoundaries)

\* the generated lines: what the step writes before the closing marker
Block == SubSeq(Written, 1, Len(Written) - 1)
Tracked == Get(skein.oldFlowRate)
TopZ == Get(skein.oldLocation).z
Thickness == Get(skein.layerThickness)
V == skein.verticalDivisions
H == repository.horizontalPerimeterDivisions
Degenerate == \E k \in 1..Len(perimeters') : Len(perimeters'[k]) < 3

Places == skein.decimalPlacesCarried

\* z of vertical division i (from 0): top - thickness + (i + 1) * thickness / V,
\* as a movement carries it
StepZ(i) ==
  getRounded(Places, FAdd(FSub(TopZ, Thickness),
                          FDiv(FMul(Thickness, floatOfInt(i + 1)), floatOfInt(V))))
WrittenTopZ == getRounded(Places, TopZ)

BracketedBy(block, first, last) ==
  /\ Len(block) >= 2
  /\ block[1] = Line("M108", first)
  /\ block[Len(block)] = Line("M108", last)
  /\ \A k \in 2..(Len(block) - 1) : block[k].tag # "M108"

PerimeterScaled ==
  IF Degenerate THEN FDiv(Tracked, floatOfInt(V))
  ELSE FDiv(FDiv(Tracked, floatOfInt(V)), floatOfInt(H))
InfillScaled ==
  FDiv(FDiv(Tracked, floatOfInt(V)), floatOfInt(repository.horizontalInfillDivisions))

\* the numerals of the two flow rate commands are those of the rates
\* themselves: read back, they give the same floats
BracketedExactlyBy(block, first, last) ==
  /\ Len(block) >= 2
  /\ block[1].tag = "M108" /\ float(ArgOf(block[1])) = first
  /\ block[Len(block)].tag = "M108" /\ float(ArgOf(block[Len(block)])) = last
  /\ \A k \in 2..(Len(block) - 1) : block[k].tag # "M108"

\* C5 as stated: every generated block begins with one flow rate command
\* carrying the scaled rate and ends with one carrying exactly the tracked
\* rate, with none between, and the tracked rate is unchanged.
C5_ExactRates ==
  [][/\ PerimeterGenerated =>
          /\ BracketedExactlyBy(Block, PerimeterScaled, Tracked)
          /\ skein'.oldFlowRate = skein.oldFlowRate
     /\ InfillGenerated =>
          /\ BracketedExactlyBy(Block, InfillScaled, Tracked)
          /\ skein'.oldFlowRate = skein.oldFlowRate]_vars

\* C5 amended: the two bracketing flow rate commands carry the scaled and
\* the tracked rate as written with four significant figures.
C5_RoundedRates ==
  [][/\ PerimeterGenerated =>
          /\ BracketedBy(Block, getFourSignificantFigures(PerimeterScaled),
                         getFourSignificantFigures(Tracked))
          /\ skein'.oldFlowRate = skein.oldFlowRate
     /\ InfillGenerated =>
          /\ BracketedBy(Block, getFourSignificantFigures(InfillScaled),
                         getFourSignificantFigures(Tracked))
          /\ skein'.oldFlowRate = skein.oldFlowRate]_vars

Previous == skein.lines[skein.lineIndex]
LastWritten == skein.output[Len(skein.output)]

C5_Witness ==
  /\ pc = "parseLine"
  /\ skein.lineIndex > 0
  /\ Previous = InfillEnd
  /\ LastWritten = InfillEnd
  /\ runtime = "2.7"
  /\ skein.oldFlowRate = Some(float(LongRate))
  /\ skein.output[Len(skein.output) - 1] = Line("M108", <<247, 200>>)
  /\ \E k \in 1..Len(skein.output) : skein.output[k] = Line("M108", <<1543, 5000>>)

\* the loops of a block: each starts at the movement before an M101
LoopStarts(block) ==
  {j \in 1..(Len(block) - 1) : block[j].tag = "G1" /\ block[j + 1].tag = "M101"}
NthStart(block, n) ==
  CHOOSE j \in LoopStarts(block) : Cardinality({i \in LoopStarts(block) : i <= j}) = n
LoopCount(block) == Cardinality(LoopStarts(block))
NonDegenerate == PerimeterGenerated /\ H >= 1 /\ ~Degenerate

\* C6 as stated: V x H loops, the loops of division i at
\* (top - thickness) + i * thickness / V, which spans
\* [top - thickness, top - thickness / V].
C6_SpanBelowTop ==
  [][NonDegenerate =>
       /\ LoopCount(Block) = V * H
       /\ \A n \in 1..LoopCount(Block) :
            G1Z(Block[NthStart(Block, n)]) =
              getRounded(Places,
                         FAdd(FSub(TopZ, Thickness),
                              FDiv(FMul(Thickness, floatOfInt((n - 1) \div H)),
                                   floatOfInt(V))))]_vars

\* C6 amended: V x H loops, the H loops of division i (from 0) at
\* top - thickness + (i + 1) * thickness / V, V distinct values that span
\* [top - thickness + thickness / V, top].
C6_SpanToTop ==
  [][NonDegenerate =>
       /\ LoopCount(Block) = V * H
       /\ \A n \in 1..LoopCount(Block) :
            G1Z(Block[NthStart(Block, n)]) = StepZ((n - 1) \div H)
       /\ Cardinality({G1Z(Block[j]) : j \in LoopStarts(Block)}) = V
       /\ G1Z(Block[NthStart(Block, 1)]) =
            getRounded(Places, FAdd(FSub(TopZ, Thickness),
                                    FDiv(Thickness, floatOfInt(V))))
       /\ G1Z(Block[NthStart(Block, V * H)]) = WrittenTopZ]_vars

C6_Witness ==
  /\ pc = "parseLine"
  /\ skein.lineIndex > 0
  /\ Previous = PerimeterEnd
  /\ LastWritten = PerimeterEnd
  /\ skein.verticalDivisions = 2
  /\ Len(perimeters) = 2
  /\ \A k \in 1..2 : Len(perimeters[k]) = 4
  /\ Cardinality({k \in 1..Len(skein.output) : skein.output[k].tag = "M101"}) = 4

IsG1(line) == line.tag = "G1"
Movements(block) == SelectSeq(block, IsG1)

\* C7: when an inset path has fewer than 3 points the block holds, for
\* each of the V divisions in turn, the points of the captured perimeter
\* at that division's z and nothing of the insets, as V loops, and the
\* opening flow rate is the tracked rate divided by V alone.
C7_Fallback ==
  [][(PerimeterGenerated /\ Degenerate) =>
       LET captured == Get(skein.perimeter)
           n == Len(captured)
           moves == Movements(Block)
       IN /\ Block[1] =
               Line("M108", getFourSignificantFigures(FDiv(Tracked, floatOfInt(V))))
          /\ Len(moves) = V * n
          /\ \A k \in 1..Len(moves) :
               /\ G1Point(moves[k]) = captured[((k - 1) % n) + 1]
               /\ G1Z(moves[k]) = StepZ((k - 1) \div n)
          /\ LoopCount(Block) = IF n >= 2 THEN V ELSE 0
          /\ Len(Block) = 2 + V * (IF n >= 2 THEN n + 2 ELSE n)]_vars

C7_Witness ==
  /\ pc = "parseLine"
  /\ skein.lineIndex > 0
  /\ Previous = PerimeterEnd
  /\ LastWritten = PerimeterEnd
  /\ skein.verticalDivisions = 2
  /\ Len(perimeters) = 2
  /\ Len(perimeters[1]) = 4
  /\ Len(perimeters[2]) = 2
  /\ Cardinality({k \in 1..Len(skein.output) : skein.output[k].tag = "M101"}) = 2
  /\ \E k \in 1..Len(skein.output) : skein.output[k] = Line("M108", <<1, 1>>)

\* the lines between the two flow rate commands of an infill block, when
\* the paths of division i (from 0) hop exactly when hops(i) holds
HoppedPath(path, i, hop) ==
  LET lift(point) ==
        IF hop
        THEN <<G1Line(point, WrittenTopZ,
                      getRounded(Places, skein.maximumZFeedRateMinute))>>
        ELSE <<>>
      moves == [k \in 1..Len(path) |->
                  G1Line(path[k], StepZ(i),
                         getRounded(Places, IF k = 1 THEN skein.travelFeedRateMinute
                                            ELSE skein.feedRateMinute))]
  IN lift(path[1])
     \o (IF Len(path) < 2 THEN moves
         ELSE <<moves[1], Line("M101", <<>>)>> \o Tail(moves) \o <<Line("M103", <<>>)>>)
     \o lift(path[Len(path)])
HoppedPaths(hops(_)) ==
  Flatten([i \in 1..V |->
             Flatten([k \in 1..Len(infillPaths'[i]) |->
                        HoppedPath(infillPaths'[i][k], i - 1, hops(i - 1))])])

\* the z the generator computes for division i (from 0) is below the top z
ComputedBelowTop(i) ==
  FLess(DivisionZ(BottomZ(TopZ, Thickness, V), Thickness, V, i), TopZ)
\* the z of division i (from 0) is below the top z
BelowTop(i) == RLess(StepZ(i), WrittenTopZ)

\* C8: with the hop setting on, each path of a division whose z is below
\* the top z is written between a movement to its first point and one to
\* its last point, both at the top z and the maximum z feed rate; a path of
\* a division not below the top, or any path with the setting off, is
\* written without them.
C8_Hops ==
  [][InfillGenerated =>
       LET hops(i) == repository.hopWhenExtrudingInfill /\ BelowTop(i)
       IN SubSeq(Block, 2, Len(Block) - 1) = HoppedPaths(hops)]_vars

\* what holds instead: the paths hop when the setting is on and the z the
\* generator computed in floating point compares below the top z, which the
\* z of the topmost division can do by one rounding error
C8_HopsWhenComputedBelow ==
  [][InfillGenerated =>
       LET hops(i) == repository.hopWhenExtrudingInfill /\ ComputedBelowTop(i)
       IN SubSeq(Block, 2, Len(Block) - 1) = HoppedPaths(hops)]_vars

\* the topmost division hops although it is written at the top z
C8_HopAtTop ==
  /\ pc = "parseLine"
  /\ skein.lineIndex > 0
  /\ Previous = InfillEnd
  /\ LastWritten = InfillEnd
  /\ repository.hopWhenExtrudingInfill
  /\ skein.verticalDivisions = 1
  /\ Len(infillPaths[1]) = 1
  /\ Cardinality({k \in 1..Len(skein.output) :
                    /\ skein.output[k].tag = "G1"
                    /\ G1Z(skein.output[k]) = <<1, 1>>
                    /\ G1F(skein.output[k]) = <<60, 1>>}) = 2

\* C9: an end of perimeter met with no perimeter buffer, or an end of
\* infill met with no infill set, does not fail, writes the marker line
\* alone and changes nothing else of the scanner.
Unbalanced ==
  /\ pc = "parseLine"
  /\ \/ CurrentLine.tag = "(</perimeter>)" /\ IsNone(skein.perimeter)
     \/ CurrentLine.tag = "(</infill>)" /\ IsNone(skein.infillBoundaries)
C9_UnbalancedEnd ==
  [][Unbalanced =>
       /\ ParseLineStep
       /\ skein' = [skein EXCEPT
                      !.output = Append(@, CurrentLine),
                      !.lineIndex = IF pc' = "parseLine" THEN @ + 1 ELSE @]]_vars

C9_Witness ==
  /\ pc = "parseLine"
  /\ skein.lineIndex > 0
  /\ Previous = PerimeterEnd
  /\ ~HasTag(skein.lines, "(<perimeter>")
  /\ LastWritten = PerimeterEnd
  /\ IsNone(skein.perimeter)

\* what a step of the body scan adds to the output: it only appends; a
\* closing marker with an open buffer appends one block that begins and
\* ends with a flow rate command, then the marker line; the loops of a
\* perimeter block come division by division (z never decreasing) and
\* within a division in inset order; any other line appends itself or
\* nothing
AppendsInOrder ==
  ParseLineStep =>
    /\ KeepsOutput
    /\ IF PerimeterGenerated \/ InfillGenerated
       THEN /\ Written[Len(Written)] = CurrentLine
            /\ Len(Block) >= 2
            /\ Block[1].tag = "M108" /\ Block[Len(Block)].tag = "M108"
            /\ \A k \in 1..Len(Block) :
                 Block[k].tag \in {"M108", "G1", "M101", "M103"}
            /\ NonDegenerate =>
                 /\ LoopCount(Block) = V * H
                 /\ \A n \in 1..LoopCount(Block) :
                      LET first == NthStart(Block, n)
                          inset == perimeters'[((n - 1) % H) + 1]
                      IN /\ SubSeq(Block, first, first + Len(inset) + 1) =
                              GcodeFromFeedRateThreadZ(
                                Places, skein.feedRateMinute, inset,
                                skein.travelFeedRateMinute,
                                float(G1Z(Block[first])))
                         /\ n > 1 =>
                              ~RLess(G1Z(Block[first]),
                                     G1Z(Block[NthStart(Block, n - 1)]))
       ELSE Written \in {<<>>, <<CurrentLine>>}

\* the step that returns the text
Returns == pc = "return" /\ pc' = "returned"

\* flow rate commands i <= j of lines with no movement or extruder command
\* between them
SameRun(lines, i, j) ==
  /\ lines[i].tag = "M108" /\ lines[j].tag = "M108"
  /\ \A k \in i..j : lines[k].tag \notin {"G1", "M101", "M103"}
\* the lines with, of the flow rate commands of one run, the last one alone,
\* in the place of the first one
FlowRatesMerged(lines) ==
  LET kept == {i \in 1..Len(lines) :
                 lines[i].tag = "M108" => ~\E j \in 1..(i - 1) : SameRun(lines, j, i)}
      nth(n) == CHOOSE i \in kept : Cardinality({j \in kept : j <= i}) = n
      lastOf(i) == CHOOSE j \in i..Len(lines) :
                     /\ SameRun(lines, i, j)
                     /\ ~\E k \in (j + 1)..Len(lines) : SameRun(lines, i, k)
  IN [n \in 1..Cardinality(kept) |->
        IF lines[nth(n)].tag = "M108" THEN lines[lastOf(nth(n))] ELSE lines[nth(n)]]

Crafting == pc \in {"parseInitialization", "parseBoundaries", "parseLine", "return", "raised"}

\* C11 as stated: after the setup of getCraftedGcode the three division
\* counts the generators use are each at least 1, so no step of the craft
\* fails on a division by zero.
C11_DivisionCounts ==
  Crafting =>
    /\ skein.verticalDivisions >= 1
    /\ skein.horizontalInfillDivisionsFloat >= 1
    /\ skein.horizontalPerimeterDivisionsFloat >= 1

(***************************************************************************)
(* The hand-over from the header scan to the prescan and the body scan.     *)
(***************************************************************************)
\* position (from 1) of the first end of initialization line
MarkerAt(lines) == Least({i \in 1..Len(lines) : lines[i].tag = EndInitTag})
HasMarker == HasTag(skein.lines, EndInitTag)
LayerLinesFrom(lines, i) ==
  Cardinality({k \in i..Len(lines) : lines[k].tag = "(<layer>"})
HeaderScanned == pc = "parseInitialization" /\ pc' = "parseBoundaries" /\ HasMarker
Prescanned == pc = "parseBoundaries" /\ pc' = "parseLine" /\ HasMarker

\* C12 as stated: the header scan stops at the first end of initialization
\* line, writes the procedure tag there and returns with the scan position
\* one line past it, where the prescan and the body scan begin.
C12_PastMarker ==
  [][/\ HeaderScanned =>
          /\ skein'.lineIndex = MarkerAt(skein.lines)
          /\ skein'.output[Len(skein'.output)] = SkinDone
     /\ Prescanned =>
          /\ skein'.lineIndex = MarkerAt(skein.lines)
          /\ skein'.layerIndexTop =
               LayerLinesFrom(skein.lines, MarkerAt(skein.lines) + 1) - 1]_vars

\* C12 amended: the header scan stops at the first end of initialization
\* line, writes the procedure tag there and returns with the scan position
\* on that line; the prescan and the body scan both begin at that line, so
\* the first line the body scan parses is the end of initialization line.
C12_AtMarker ==
  [][/\ HeaderScanned =>
          /\ skein'.lineIndex = MarkerAt(skein.lines) - 1
          /\ skein'.output[Len(skein'.output)] = SkinDone
          /\ \A k \in 1..(Len(skein'.output) - 1) : skein'.output[k] # SkinDone
     /\ Prescanned =>
          /\ skein'.lineIndex = MarkerAt(skein.lines) - 1
          /\ skein'.lines[skein'.lineIndex + 1].tag = EndInitTag
          /\ skein'.layerIndexTop =
               LayerLinesFrom(skein.lines, MarkerAt(skein.lines)) - 1]_vars

C12_Witness ==
  /\ pc = "parseLine"
  /\ CurrentLine = EndInit
  /\ skein.lineIndex = MarkerAt(skein.lines) - 1
  /\ LastWritten = SkinDone
  /\ HasTag(SubSeq(skein.lines, 1, skein.lineIndex), "(<layer>")
  /\ HasTag(SubSeq(skein.lines, skein.lineIndex + 2, Len(skein.lines)), EndInitTag)
  /\ skein.layerIndexTop = 0

\* the header region: the lines up to the first end of initialization line,
\* or every line when there is none
HeaderRegion ==
  IF HasMarker THEN SubSeq(skein.lines, 1, MarkerAt(skein.lines)) ELSE skein.lines
IsWritable(line) == line # Blank
IsNotSkinDone(line) == line # SkinDone
\* the step of the body scan on the line the header scan stopped at
HandOver ==
  /\ pc = "parseLine"
  /\ skein.lineIndex = Len(HeaderRegion) - 1

\* C13 as stated: once the body scan has taken over, the output holds the
\* lines of the header region (blank lines aside), the end of
\* initialization line included, each once and in input order, next to the
\* procedure tag.
C13_HeaderOnce ==
  [][HandOver =>
       SelectSeq(skein'.output, IsNotSkinDone) = SelectSeq(HeaderRegion, IsWritable)]_vars

\* the same for texts that have an end of initialization line
C13_HeaderOnceWithMarker ==
  [][(HandOver /\ HasMarker) =>
       SelectSeq(skein'.output, IsNotSkinDone) = SelectSeq(HeaderRegion, IsWritable)]_vars

(***************************************************************************)
(* Capture state of the body scan.                                          *)
(***************************************************************************)
InfillOpen(s) == ~IsNone(s.infillBoundaries)
PerimeterOpen(s) == ~IsNone(s.perimeter)

\* C14: after a start of infill line is parsed an infill boundary set is
\* open exactly when the layer index is at or after the starting layer and
\* equals the last layer index of the prescan, and it is then empty; in
\* every state of the body scan an open set means the layer index equals
\* the last layer index of the prescan.
C14_TopLayerInfill ==
  [][/\ (ParseLineStep /\ CurrentLine.tag = "(<infill>)") =>
          /\ InfillOpen(skein') <=>
               (/\ skein.layerIndex >= skein.layersFromBottom
                /\ skein.layerIndex = skein.layerIndexTop)
          /\ InfillOpen(skein') => skein'.infillBoundaries = Some(<<>>)
     /\ InfillOpen(skein') => skein'.layerIndex = skein'.layerIndexTop]_vars

C14_Witness ==
  /\ pc = "parseLine"
  /\ skein.lineIndex > 0
  /\ Previous = InfillStart
  /\ InfillOpen(skein)
  /\ skein.layerIndex = 2
  /\ skein.layerIndexTop = 2
  /\ skein.layersFromBottom = 1
  /\ Cardinality({k \in 1..skein.lineIndex : skein.lines[k] = InfillStart}) = 3

\* the step writes the parsed line, as the last line it writes
Forwarded == Written # <<>> /\ Written[Len(Written)] = CurrentLine
Withheld == skein'.output = skein.output
IsMotionOrExtruder(line) == line.tag \in {"G1", "M101", "M103"}
Structural ==
  {"(<perimeter>", "(</perimeter>)", "(<infill>)", "(</infill>)", "(<layer>",
   "(<rotation>", "M108"}

\* C15 as stated: a line of the body scan that is not blank is withheld
\* from the output exactly when it is a movement or an extruder command and
\* a capture buffer is open; every other line is forwarded unchanged.
C15_OnlyCapturedWithheld ==
  [][(ParseLineStep /\ CurrentLine # Blank) =>
       /\ ~Forwarded <=>
            (/\ IsMotionOrExtruder(CurrentLine)
             /\ (PerimeterOpen(skein) \/ InfillOpen(skein)))
       /\ CurrentLine.tag \in Structural => Forwarded]_vars

\* C15 amended: a line of the body scan is withheld from the output exactly
\* when it has no word (blank or comment only), or it is a movement or an
\* extruder command and a capture buffer is open; a withheld line writes
\* nothing, every other line is written unchanged after whatever its
\* marker generates.
C15_WordlessOrCapturedWithheld ==
  [][ParseLineStep =>
       /\ KeepsOutput
       /\ ~Forwarded <=>
            \/ HasNoWord(CurrentLine)
            \/ /\ IsMotionOrExtruder(CurrentLine)
               /\ (PerimeterOpen(skein) \/ InfillOpen(skein))
       /\ ~Forwarded => Withheld
       /\ CurrentLine.tag \in Structural => Forwarded]_vars

C15_Witness ==
  /\ pc = "parseLine"
  /\ skein.lineIndex > 1
  /\ Previous = ExtruderOn
  /\ skein.lines[skein.lineIndex - 1] = InfillStart
  /\ InfillOpen(skein)
  /\ ~PerimeterOpen(skein)
  /\ LastWritten = InfillStart

(***************************************************************************)
(* The capture state before each line, read off the lines from the line     *)
(* the body scan begins at.                                                 *)
(***************************************************************************)
BodyStart == Len(HeaderRegion)
LayerIndexAt(k) ==
  Cardinality({j \in BodyStart..(k - 1) : skein.lines[j].tag = "(<layer>"}) - 1
InfillOpenAt(k) ==
  \E j \in BodyStart..(k - 1) :
    /\ skein.lines[j].tag = "(<infill>)"
    /\ LayerIndexAt(j) >= skein.layersFromBottom
    /\ LayerIndexAt(j) = skein.layerIndexTop
    /\ \A i \in (j + 1)..(k - 1) : skein.lines[i].tag # "(</infill>)"
PerimeterOpenedAt(k) ==
  skein.lines[k].tag = "(<perimeter>" /\ LayerIndexAt(k) >= skein.layersFromBottom
Greatest(S) == CHOOSE k \in S : \A j \in S : j <= k
\* the points of the movements at lines k..(n - 1) met outside infill capture
RECURSIVE PointsOutsideInfill(_, _)
PointsOutsideInfill(k, n) ==
  IF k >= n THEN <<>>
  ELSE (IF skein.lines[k].tag = "G1" /\ ~InfillOpenAt(k)
        THEN <<G1Point(skein.lines[k])>> ELSE <<>>)
       \o PointsOutsideInfill(k + 1, n)
PointsSincePerimeterStart ==
  LET n == skein.lineIndex + 1
      opened == {k \in BodyStart..(n - 1) : PerimeterOpenedAt(k)}
  IN PointsOutsideInfill(Greatest(opened) + 1, n)

\* C16: a movement sets the tracked position to its point and z (the old z
\* when it has none) and the feed rate to its own when it has one, whatever
\* the capture state; its point is appended to the perimeter buffer exactly
\* when that buffer is open and no infill set is open; it never changes an
\* infill set; and at an end of perimeter the open buffer holds, in order,
\* the points of the movements met since the start of perimeter outside
\* infill capture.
C16_MotionCapture ==
  [][/\ (ParseLineStep /\ CurrentLine.tag = "G1") =>
          /\ Get(skein'.oldLocation).point = G1Point(CurrentLine)
          /\ Get(skein'.oldLocation).z =
               (IF G1Z(CurrentLine) # NoWord THEN float(G1Z(CurrentLine))
                ELSE IF IsNone(skein.oldLocation) THEN Zero
                ELSE Get(skein.oldLocation).z)
          /\ skein'.feedRateMinute =
               (IF G1F(CurrentLine) # NoWord THEN float(G1F(CurrentLine))
                ELSE skein.feedRateMinute)
          /\ skein'.perimeter =
               (IF PerimeterOpen(skein) /\ ~InfillOpen(skein)
                THEN Some(Append(Get(skein.perimeter), G1Point(CurrentLine)))
                ELSE skein.perimeter)
          /\ skein'.infillBoundaries = skein.infillBoundaries
          /\ skein'.infillBoundary = skein.infillBoundary
     /\ (pc = "parseLine" /\ CurrentLine.tag = "(</perimeter>)" /\ PerimeterOpen(skein)) =>
          Get(skein.perimeter) = PointsSincePerimeterStart]_vars

C16_Witness ==
  /\ pc = "parseLine"
  /\ CurrentLine = PerimeterEnd
  /\ skein.perimeter = Some(<<1, 1>>)
  /\ skein.lineIndex > 4
  /\ skein.lines[skein.lineIndex - 3] = InfillStart
  /\ skein.lines[skein.lineIndex - 2] = MoveB
  /\ skein.lines[skein.lineIndex - 1] = InfillEnd
  /\ Previous = MoveA
  /\ Get(skein.oldLocation).point = 1
  /\ skein.feedRateMinute = floatOfInt(600)

(***************************************************************************)
(* Lifetime of the capture buffers.                                         *)
(***************************************************************************)
IsPrefix(a, b) == Len(a) <= Len(b) /\ SubSeq(b, 1, Len(a)) = a
\* the set b is the set a with at most one loop or one point added
GrownSet(a, b) ==
  /\ Len(a) <= Len(b)
  /\ \A k \in 1..(Len(a) - 1) : b[k] = a[k]
  /\ Len(a) > 0 => IsPrefix(a[Len(a)], b[Len(a)])
\* the step writes a generated block before the line it parses
Consumed ==
  /\ Len(Written) >= 3
  /\ Written[1].tag = "M108"
  /\ Written[Len(Written) - 1].tag = "M108"
  /\ Written[Len(Written)] = CurrentLine

\* C17 as stated: a buffer that is open is kept, growing only, until its
\* end marker, where its generator consumes it and leaves it absent; no
\* open buffer is discarded by another line; no generator runs without an
\* open buffer.
C17_NeverDiscarded ==
  [][ParseLineStep =>
       /\ PerimeterOpen(skein) =>
            IF CurrentLine.tag = "(</perimeter>)"
            THEN Consumed /\ ~PerimeterOpen(skein')
            ELSE /\ PerimeterOpen(skein')
                 /\ IsPrefix(Get(skein.perimeter), Get(skein'.perimeter))
       /\ InfillOpen(skein) =>
            IF CurrentLine.tag = "(</infill>)"
            THEN Consumed /\ ~InfillOpen(skein')
            ELSE /\ InfillOpen(skein')
                 /\ GrownSet(Get(skein.infillBoundaries), Get(skein'.infillBoundaries))
       /\ (~PerimeterOpen(skein) /\ ~InfillOpen(skein)) => ~Consumed]_vars

\* C17 amended: a buffer that is open when its end marker is met is
\* consumed by its generator once, there, and is absent afterwards; a start
\* marker of its kind met while it is open replaces it by an empty buffer,
\* which discards it unconsumed; any other line keeps it, growing only; no
\* generator runs without an open buffer.  (A buffer may be open when the
\* scan ends.)
C17_ConsumedAtEnd ==
  [][ParseLineStep =>
       /\ PerimeterOpen(skein) =>
            CASE CurrentLine.tag = "(</perimeter>)" ->
                   Consumed /\ ~PerimeterOpen(skein')
              [] CurrentLine.tag = "(<perimeter>" ->
                   skein'.perimeter = Some(<<>>)
              [] OTHER ->
                   /\ PerimeterOpen(skein')
                   /\ IsPrefix(Get(skein.perimeter), Get(skein'.perimeter))
       /\ InfillOpen(skein) =>
            CASE CurrentLine.tag = "(</infill>)" ->
                   Consumed /\ ~InfillOpen(skein')
              [] CurrentLine.tag = "(<infill>)" ->
                   skein'.infillBoundaries = Some(<<>>)
              [] OTHER ->
                   /\ InfillOpen(skein')
                   /\ GrownSet(Get(skein.infillBoundaries), Get(skein'.infillBoundaries))
       /\ (~PerimeterOpen(skein) /\ CurrentLine.tag = "(</perimeter>)") =>
            Written = <<CurrentLine>>
       /\ (~InfillOpen(skein) /\ CurrentLine.tag = "(</infill>)") =>
            Written = <<CurrentLine>>
       /\ (~PerimeterOpen(skein) /\ ~InfillOpen(skein)) => ~Consumed]_vars

C17_Witness ==
  /\ pc = "return"
  /\ skein.lineIndex > 1
  /\ CurrentLine = PerimeterEnd
  /\ skein.lines[skein.lineIndex - 1] = InfillEnd
  /\ ~PerimeterOpen(skein)
  /\ ~InfillOpen(skein)
  /\ LastWritten = PerimeterEnd
  /\ Cardinality({k \in 1..Len(skein.output) : skein.output[k].tag = "M108"}) = 4

(***************************************************************************)
(* The boundary layers against the lines the prescan read.                  *)
(***************************************************************************)
LayerLines == {k \in BodyStart..Len(skein.lines) : skein.lines[k].tag = "(<layer>"}
\* position of the layer line that opens boundary layer n (from 1)
LayerLineOf(n) ==
  CHOOSE k \in LayerLines : Cardinality({j \in LayerLines : j <= k}) = n
RECURSIVE BoundaryPointsBetween(_, _)
BoundaryPointsBetween(k, n) ==
  IF k >= n THEN <<>>
  ELSE (IF skein.lines[k].tag = "(<boundaryPoint>"
        THEN <<skein.lines[k].val[1]>> ELSE <<>>)
       \o BoundaryPointsBetween(k + 1, n)
\* the boundary points that follow layer line n and precede the next one
BoundaryPointsOfLayer(n) ==
  BoundaryPointsBetween(
    LayerLineOf(n),
    IF n < Cardinality(LayerLines) THEN LayerLineOf(n + 1) ELSE Len(skein.lines) + 1)

\* C18 as stated: after the prescan there is one boundary layer for each
\* layer line, and the loops of each boundary layer hold, in order, the
\* boundary points that follow its layer line and precede the next layer
\* line.
C18_PointsInOwnLayer ==
  InBody =>
    /\ Len(skein.boundaryLayers) = Cardinality(LayerLines)
    /\ \A n \in 1..Len(skein.boundaryLayers) :
         Flatten(skein.boundaryLayers[n].loops) = BoundaryPointsOfLayer(n)

\* the same for texts in which every layer line that follows a boundary
\* point is preceded by an end of boundary line
LoopsClosedBeforeLayers ==
  \A k \in LayerLines :
    \A j \in BodyStart..(k - 1) :
      skein.lines[j].tag = "(<boundaryPoint>" =>
        \E i \in (j + 1)..(k - 1) : skein.lines[i].tag = "(</boundaryPerimeter>)"
C18_PointsInOwnLayerWhenClosed ==
  (InBody /\ LoopsClosedBeforeLayers) =>
    /\ Len(skein.boundaryLayers) = Cardinality(LayerLines)
    /\ \A n \in 1..Len(skein.boundaryLayers) :
         Flatten(skein.boundaryLayers[n].loops) = BoundaryPointsOfLayer(n)

(***************************************************************************)
(* Infill points and the open infill set.                                   *)
(***************************************************************************)
InfillPointMet ==
  /\ pc = "parseLine"
  /\ CurrentLine.tag = "(<infillPoint>"
  /\ InfillOpen(skein)
\* the point joins the last loop of the open set
JoinsOpenSet ==
  LET loops == Get(skein.infillBoundaries)
  IN /\ Len(loops) > 0
     /\ skein'.infillBoundaries =
          Some([loops EXCEPT ![Len(loops)] = Append(@, CurrentLine.val[1])])

\* C19 as stated: while an infill set is open an infill point does not
\* fail the scan; when the set has a loop the point is appended to the
\* last loop of the set, and when it has none the point is appended to no
\* loop.
C19_PointJoinsOpenSet ==
  [][InfillPointMet =>
       /\ ParseLineStep
       /\ Len(Get(skein.infillBoundaries)) > 0 => JoinsOpenSet
       /\ Len(Get(skein.infillBoundaries)) = 0 =>
            skein'.infillBoundary = skein.infillBoundary]_vars

\* the same for an infill point met after an infill boundary line of the
\* open set
C19_PointJoinsOpenedLoop ==
  [][(InfillPointMet /\ Len(Get(skein.infillBoundaries)) > 0) =>
       ParseLineStep /\ JoinsOpenSet]_vars

\* C20: in the body scan the layer index is at least -1 and at most the
\* last layer index of the prescan, no step of the scan lowers it, and it
\* equals the last layer index of the prescan when the scan finishes.
C20_LayerCounters ==
  [][/\ InBody' =>
          /\ skein'.layerIndex >= -1
          /\ skein'.layerIndex <= skein'.layerIndexTop
          /\ skein'.layerIndexTop = Len(skein'.boundaryLayers) - 1
     /\ pc = "parseLine" =>
          /\ skein'.layerIndex >= skein.layerIndex
          /\ skein'.layerIndexTop = skein.layerIndexTop
     /\ pc' = "return" => skein'.layerIndex = skein'.layerIndexTop]_vars

C20_Witness ==
  /\ pc = "return"
  /\ skein.layerIndex = 3
  /\ skein.layerIndexTop = 3
  /\ Len(skein.boundaryLayers) = 4
  /\ skein.layersFromBottom = 2

====
